---- MODULE Spec2Model ----
(***************************************************************************)
(* Model of the atv-companion client: the framed transport                 *)
(* (CompanionConnection), the ChaCha20-Poly1305 wrapper (Chacha20Cipher),  *)
(* the request/response multiplexer (CompanionProtocol) and the            *)
(* Pair-Verify handshake (SRPAuthHandler.verify1/verify2, setupEncryption).*)
(*                                                                         *)
(* Buffers are sequences of bytes (0..255).  The library primitives        *)
(* (ChaCha20-Poly1305, X25519, Ed25519, HKDF) are replaced by small        *)
(* arithmetic stand-ins that keep the algebra the client relies on: open   *)
(* inverts seal under the same key, nonce and aad and fails otherwise, a   *)
(* signature verifies under exactly one public key and message, and the    *)
(* Diffie-Hellman shared secret is the same on both sides.                 *)
(***************************************************************************)
EXTENDS Integers, Sequences, FiniteSets, TLC

VARIABLES
    socket,       \* CompanionConnection.socket: 0 is null, n > 0 the n-th Socket
    sockState,    \* per Socket created: "connecting", "open", "destroyed" or "closed"
    buffer,       \* CompanionConnection.buffer
    chacha,       \* CompanionConnection.chacha: NoCipher or a cipher record
    attached,     \* whether a CompanionProtocol listens to 'frame'
    xid,          \* CompanionProtocol.xid
    queues,       \* CompanionProtocol.queues: the entries [key, call] in insertion order
    isStarted,    \* CompanionProtocol.isStarted
    calls,        \* every promise made by exchangeGenericOpack, with its timer
    protoErrors,  \* every emit('error', err) of the protocol, in order
    protoErrListener, \* whether somebody listens to the protocol's 'error' event
    srp,          \* CompanionProtocol.srp: the SRPAuthHandler's verifyKey and sharedSecret
    task,         \* the start() call in progress: where it is suspended, and its outcome
    pairSetup,    \* the CompanionPairSetupProcedure, and where its call in progress is suspended
    api,          \* the CompanionAPI: protocol, subscribedEvents, and where connect() or disconnect() is suspended
    wire,         \* bytes the device has written and the socket has not yet delivered
    devKeys,      \* the device's session keys: NoCipher until it has keyed the session
    devOut,       \* the device's own send counter (its side of the data channel)
    devFrames,    \* the frames the device has written, in order
    devHonest,    \* FALSE once the device has written a frame that does not open
    devPV,        \* the device's side of Pair-Verify and of Pair-Setup
    written,      \* what the client handed to socket.write, in order
    frames,       \* every emit('frame', type, payload) of the connection, in order
    connErrors,   \* every emit('error', err) of the connection, in order
    connErrListener, \* whether somebody listens to the connection's 'error' event
    crashed,      \* an 'error' event was emitted with no listener: the process is gone
    cipher,       \* a Chacha20Cipher used on its own (as verify1 and the unit tests do)
    last          \* the operation that acted last, with what it saw

connVars == <<socket, sockState, buffer, chacha, attached, written, frames, connErrors,
              connErrListener, crashed>>
protoVars == <<xid, queues, isStarted, calls, protoErrors, protoErrListener, srp, task,
               pairSetup, api>>
devVars == <<wire, devKeys, devOut, devFrames, devHonest, devPV>>
vars == <<connVars, protoVars, devVars, cipher, last>>

----------------------------------------------------------------------------
(* Bounds of the model *)

MaxPayload == 2
MaxDevFrames == 2
MaxSends == 2
MaxCipherOps == 2
MaxConnects == 1
MaxCalls == 2
MaxSessions == 2
MaxApiSends == 5
MaxItems == 3
MaxEntries == 2
MaxChunks == 2

\* a JavaScript number holds every integer up to 2^53 and no odd one above;
\* the model has ExactBits bits in place of the 53, so that a run gets there
ExactBits == 5

RECURSIVE Pow2(_)
Pow2(n) == IF n = 0 THEN 1 ELSE 2 * Pow2(n - 1)

ExactLimit == Pow2(ExactBits)

----------------------------------------------------------------------------
(* Buffers *)

Byte == 0..255

Min(a, b) == IF a < b THEN a ELSE b

\* Buffer.subarray(start, end): 0-based, end exclusive, clipped to the buffer
subarray(b, start, end) ==
    LET e == Min(end, Len(b))
    IN  IF start >= e THEN <<>> ELSE SubSeq(b, start + 1, e)

\* the sum of the first n bytes, and the sum weighted by position
RECURSIVE SumTo(_, _)
SumTo(b, n) == IF n = 0 THEN 0 ELSE b[n] + SumTo(b, n - 1)

RECURSIVE WSumTo(_, _)
WSumTo(b, n) == IF n = 0 THEN 0 ELSE (n * (b[n] + 1)) + WSumTo(b, n - 1)

Sum(b) == SumTo(b, Len(b))

\* a one-byte digest of a buffer, position sensitive
Digest(b) == (WSumTo(b, Len(b)) + (7 * Len(b))) % 251

\* buf.writeUIntBE(value, 1, 3): the three length bytes of a frame header
writeUIntBE3(value) ==
    <<(value \div 65536) % 256, (value \div 256) % 256, value % 256>>

\* buf.readUIntBE(1, 3)
readUIntBE3(b) == (b[2] * 65536) + (b[3] * 256) + b[4]

\* nonce.writeBigUInt64LE(BigInt(counter), offset): eight bytes, little-endian
RECURSIVE LEBytes(_, _)
LEBytes(value, n) ==
    IF n = 0 THEN <<>> ELSE <<value % 256>> \o LEBytes(value \div 256, n - 1)

Zeros(n) == [i \in 1..n |-> 0]

----------------------------------------------------------------------------
(* Program constants *)

NONCE_LENGTH == 12
AUTH_TAG_LENGTH == 16
HEADER_LENGTH == 4
DEFAULT_TIMEOUT == 5000

\* FrameType
NoOp == 1
PS_Start == 3
PS_Next == 4
PV_Start == 5
PV_Next == 6
U_OPACK == 7
E_OPACK == 8
P_OPACK == 9

AUTH_FRAMES == {PS_Start, PS_Next, PV_Start, PV_Next}
OPACK_FRAMES == {U_OPACK, E_OPACK, P_OPACK}

\* MessageType
Event == 1
Request == 2
Response == 3

----------------------------------------------------------------------------
(* ChaCha20-Poly1305 (the library primitive), as byte arithmetic.            *)
(* The ciphertext is the plaintext shifted by a keystream byte that depends  *)
(* on key, nonce and position (aeadShift + i); the 16-byte tag spells out digests of key,    *)
(* nonce, aad and ciphertext, so that open fails when any of them differs.   *)

aeadShift(key, nonce) == Digest(key) + Digest(nonce)

aeadTag(key, nonce, aad, ct) ==
    <<Digest(key), Digest(nonce), Digest(aad), Digest(ct)>> \o Zeros(AUTH_TAG_LENGTH - 4)

\* chacha20poly1305(key, nonce, aad).encrypt(data): ciphertext || tag
aeadSeal(key, nonce, aad, pt) ==
    LET k  == aeadShift(key, nonce)
        ct == [i \in 1..Len(pt) |-> (pt[i] + k + i) % 256]
    IN  ct \o aeadTag(key, nonce, aad, ct)

\* chacha20poly1305(key, nonce, aad).decrypt(data): the plaintext, or a throw
aeadOpen(key, nonce, aad, data) ==
    IF Len(data) < AUTH_TAG_LENGTH
    THEN [ok |-> FALSE, out |-> <<>>]
    ELSE LET n  == Len(data) - AUTH_TAG_LENGTH
             ct == subarray(data, 0, n)
             tg == subarray(data, n, Len(data))
             k  == aeadShift(key, nonce)
         IN  IF tg = aeadTag(key, nonce, aad, ct)
             THEN [ok |-> TRUE,
                   out |-> [i \in 1..n |-> (ct[i] + 512 - ((k + i) % 256)) % 256]]
             ELSE [ok |-> FALSE, out |-> <<>>]

----------------------------------------------------------------------------
(* Chacha20Cipher *)

NoCipher == [set |-> FALSE]

\* new Chacha20Cipher(outKey, inKey, nonceLength)
NewCipher(outKey, inKey, nonceLength) ==
    [set |-> TRUE, outKey |-> outKey, inKey |-> inKey,
     outCounter |-> 0, inCounter |-> 0, nonceLength |-> nonceLength]

\* the nonce argument of encrypt/decrypt: undefined, a string or a Buffer
NonceUndefined == [t |-> "undefined"]
NonceString(b) == [t |-> "string", v |-> b]
NonceBuffer(b) == [t |-> "buffer", v |-> b]

buildNonce(c, counter) ==
    IF c.nonceLength = NONCE_LENGTH
    THEN LEBytes(counter, 8) \o Zeros(NONCE_LENGTH - 8)
    ELSE Zeros(4) \o LEBytes(counter, 8)

padNonce(nonce) ==
    IF Len(nonce) >= NONCE_LENGTH
    THEN nonce
    ELSE Zeros(NONCE_LENGTH - Len(nonce)) \o nonce

\* a counter that is not advanced
incCounterStuck(n) == n

\* this.outCounter++ / this.inCounter++ on a JavaScript number: n + 1 is
\* exact below 2^53, and 2^53 + 1 rounds to 2^53
incCounter(n) == IF n >= ExactLimit THEN n ELSE n + 1

\* Chacha20Cipher.encrypt(data, nonce, aad): the cipher afterwards, whether the
\* call returned (ok) or threw, the bytes returned and the counter it used
encrypt(c, data, nonce, aad) ==
    LET counted == nonce.t = "undefined"
        nb == IF counted THEN buildNonce(c, c.outCounter) ELSE padNonce(nonce.v)
        c1 == IF counted THEN [c EXCEPT !.outCounter = incCounter(c.outCounter)] ELSE c
    IN  IF Len(nb) # NONCE_LENGTH
        THEN [c |-> c1, ok |-> FALSE, out |-> <<>>, ctr |-> -1]
        ELSE [c |-> c1, ok |-> TRUE, out |-> aeadSeal(c.outKey, nb, aad, data),
              ctr |-> IF counted THEN c.outCounter ELSE -1]

\* Chacha20Cipher.decrypt(data, nonce, aad): inCounter is advanced before the
\* library call, so it advances also when the call throws
decrypt(c, data, nonce, aad) ==
    LET counted == nonce.t = "undefined"
        nb == IF counted THEN buildNonce(c, c.inCounter) ELSE padNonce(nonce.v)
        c1 == IF counted THEN [c EXCEPT !.inCounter = incCounter(c.inCounter)] ELSE c
        opened(r) == [c |-> c1, ok |-> r.ok, out |-> r.out,
                      ctr |-> IF counted THEN c.inCounter ELSE -1]
    IN  IF Len(nb) # NONCE_LENGTH
        THEN [c |-> c1, ok |-> FALSE, out |-> <<>>, ctr |-> -1]
        ELSE opened(aeadOpen(c.inKey, nb, aad, data))

----------------------------------------------------------------------------
(* JavaScript values, as far as OPACK carries them.  A string is the sequence *)
(* of its UTF-8 bytes; an object is the sequence of its entries in insertion  *)
(* order.                                                                     *)

Undefined == [t |-> "undefined"]
Null == [t |-> "null"]
Bool(b) == [t |-> "boolean", b |-> b]
Num(n) == [t |-> "number", n |-> n]
SizedInt(value, size) == [t |-> "SizedInt", n |-> value, size |-> size]
Float(bytes) == [t |-> "float", s |-> bytes]
Str(s) == [t |-> "string", s |-> s]
Buf(s) == [t |-> "Buffer", s |-> s]
Arr(a) == [t |-> "array", a |-> a]
Obj(e) == [t |-> "object", e |-> e]

\* the property names the protocol uses: "_t", "_x", "_i", "_c", "_em", "_pd", "_auTy",
\* "_pwTy", "name"
Key_t == <<95, 116>>
Key_x == <<95, 120>>
Key_i == <<95, 105>>
Key_c == <<95, 99>>
Key_em == <<95, 101, 109>>
Key_pd == <<95, 112, 100>>
Key_auTy == <<95, 97, 117, 84, 121>>
Key_pwTy == <<95, 112, 119, 84, 121>>
Key_name == <<110, 97, 109, 101>>

NaN == -1

\* the decimal digits of a non-negative integer, as a string
RECURSIVE Digits(_)
Digits(n) == IF n < 10 THEN <<48 + n>> ELSE Digits(n \div 10) \o <<48 + (n % 10)>>

RECURSIVE ParseDigits(_, _)
ParseDigits(s, acc) ==
    IF s = <<>> THEN acc
    ELSE IF Head(s) < 48 \/ Head(s) > 57 THEN NaN
    ELSE ParseDigits(Tail(s), (acc * 10) + (Head(s) - 48))

\* Number(v); a Buffer, an array or an object (which JavaScript would first
\* turn into a string) is taken to give NaN
Number(v) ==
    CASE v.t = "number" -> v.n
      [] v.t = "SizedInt" -> v.n
      [] v.t = "null" -> 0
      [] v.t = "boolean" -> IF v.b THEN 1 ELSE 0
      [] v.t = "string" -> ParseDigits(v.s, 0)
      [] OTHER -> NaN

\* String(v), as used for the keys of a decoded dictionary
String(v) ==
    CASE v.t = "string" -> v.s
      [] v.t = "number" -> Digits(v.n)
      [] v.t = "SizedInt" -> Digits(v.n)
      [] v.t = "Buffer" -> v.s
      [] v.t = "null" -> <<110, 117, 108, 108>>
      [] v.t = "boolean" -> IF v.b THEN <<116, 114, 117, 101>> ELSE <<102, 97, 108, 115, 101>>
      [] v.t = "undefined" -> <<117, 110, 100, 101, 102, 105, 110, 101, 100>>
      [] OTHER -> <<91, 111, 98, 106, 101, 99, 116, 93>>

\* typeof v === 'object' && v !== null
IsObject(v) == v.t \in {"object", "array", "Buffer", "SizedInt"}

\* the position of key k among the entries e, 0 when absent
RECURSIVE KeyIndex(_, _, _)
KeyIndex(e, k, i) ==
    IF i > Len(e) THEN 0 ELSE IF e[i].k = k THEN i ELSE KeyIndex(e, k, i + 1)

\* k in v
In(v, k) == v.t = "object" /\ KeyIndex(v.e, k, 1) > 0

\* v[k]
Get(v, k) == IF In(v, k) THEN v.e[KeyIndex(v.e, k, 1)].v ELSE Undefined

\* v[k] = x on the entries of an object
SetKey(e, k, x) ==
    IF KeyIndex(e, k, 1) > 0
    THEN [e EXCEPT ![KeyIndex(e, k, 1)] = [k |-> k, v |-> x]]
    ELSE Append(e, [k |-> k, v |-> x])

----------------------------------------------------------------------------
(* OPACK: pack *)

\* the position of the first element of list equal to x, 0 when absent
RECURSIVE IndexOf(_, _, _)
IndexOf(list, x, i) ==
    IF i > Len(list) THEN 0 ELSE IF list[i] = x THEN i ELSE IndexOf(list, x, i + 1)

\* packInteger(value, sizeHint), sizeHint 0 standing for null
packInteger(value, sizeHint) ==
    IF value < 40 /\ sizeHint = 0 THEN <<value + 8>>
    ELSE IF (value <= 255 /\ sizeHint = 0) \/ sizeHint = 1 THEN <<48>> \o LEBytes(value, 1)
    ELSE IF (value <= 65535 /\ sizeHint = 0) \/ sizeHint = 2 THEN <<49>> \o LEBytes(value, 2)
    ELSE IF sizeHint = 0 \/ sizeHint = 4 THEN <<50>> \o LEBytes(value, 4)
    ELSE <<51>> \o LEBytes(value, 8)

\* packString(data), for strings shorter than 65536 bytes
packString(data) ==
    IF Len(data) <= 32 THEN <<64 + Len(data)>> \o data
    ELSE IF Len(data) <= 255 THEN <<97, Len(data)>> \o data
    ELSE <<98>> \o LEBytes(Len(data), 2) \o data

\* packBytes(data), for buffers shorter than 65536 bytes
packBytes(data) ==
    IF Len(data) <= 32 THEN <<112 + Len(data)>> \o data
    ELSE IF Len(data) <= 255 THEN <<145, Len(data)>> \o data
    ELSE <<146>> \o LEBytes(Len(data), 2) \o data

\* the object reference that replaces an encoding found at index (from 0)
packReference(index) ==
    IF index < 33 THEN <<160 + index>>
    ELSE IF index <= 255 THEN <<193, index>>
    ELSE <<194>> \o LEBytes(index, 2)

\* packInternal(data, objectList): the bytes and the object list afterwards.
\* Numbers are non-negative integers below 2^31; floats are carried as their
\* eight bytes.
RECURSIVE packInternal(_, _)
RECURSIVE packItems(_, _, _)
RECURSIVE packEntries(_, _, _)

packItems(items, i, acc) ==
    IF i > Len(items) THEN acc
    ELSE LET next(r) ==
                 packItems(items, i + 1, [bytes |-> acc.bytes \o r.bytes, list |-> r.list])
         IN  next(packInternal(items[i], acc.list))

packEntries(entries, i, acc) ==
    IF i > Len(entries) THEN acc
    ELSE LET value(rk) ==
                 LET next(rv) ==
                         packEntries(entries, i + 1,
                                     [bytes |-> acc.bytes \o rk.bytes \o rv.bytes,
                                      list |-> rv.list])
                 IN  next(packInternal(entries[i].v, rk.list))
         IN  value(packInternal(Str(entries[i].k), acc.list))

packInternal(data, objectList) ==
    LET \* the object list: a repeated encoding becomes a reference, a new one
        \* longer than one byte is remembered
        listed(packedBytes, list1) ==
            LET existingIndex == IndexOf(list1, packedBytes, 1) - 1
            IN  IF existingIndex # -1
                THEN [bytes |-> packReference(existingIndex), list |-> list1]
                ELSE IF Len(packedBytes) > 1
                THEN [bytes |-> packedBytes, list |-> Append(list1, packedBytes)]
                ELSE [bytes |-> packedBytes, list |-> list1]
        composite(r, n) == listed(r.bytes \o (IF n >= 15 THEN <<3>> ELSE <<>>), r.list)
    IN  CASE data.t \in {"null", "undefined"} -> listed(<<4>>, objectList)
          [] data.t = "boolean" -> listed(IF data.b THEN <<1>> ELSE <<2>>, objectList)
          [] data.t = "SizedInt" -> listed(packInteger(data.n, data.size), objectList)
          [] data.t = "number" -> listed(packInteger(data.n, 0), objectList)
          [] data.t = "float" -> listed(<<54>> \o data.s, objectList)
          [] data.t = "string" -> listed(packString(data.s), objectList)
          [] data.t = "Buffer" -> listed(packBytes(data.s), objectList)
          [] data.t = "array" ->
                composite(packItems(data.a, 1, [bytes |-> <<208 + Min(Len(data.a), 15)>>,
                                                list |-> objectList]),
                          Len(data.a))
          [] data.t = "object" ->
                composite(packEntries(data.e, 1, [bytes |-> <<224 + Min(Len(data.e), 15)>>,
                                                  list |-> objectList]),
                          Len(data.e))

\* pack(data)
pack(data) == packInternal(data, <<>>).bytes

----------------------------------------------------------------------------
(* OPACK: unpack *)

\* data.readUIntLE(offset, n): the value, or -1 where Node throws a RangeError.
\* A value of 2^31 or more is carried as 2^31 - 1.
RECURSIVE readLE(_, _, _)
readLE(data, offset, n) ==
    IF n = 0 THEN 0
    ELSE IF offset + n > Len(data) THEN -1
    ELSE LET high == readLE(data, offset + 1, n - 1)
         IN  IF high >= 8388608 THEN 2147483647 ELSE data[offset + 1] + (256 * high)


\* buf.toString('hex')
HexDigit(n) == IF n < 10 THEN 48 + n ELSE 87 + n

RECURSIVE Hex(_)
Hex(b) == IF b = <<>> THEN <<>>
          ELSE <<HexDigit(Head(b) \div 16), HexDigit(Head(b) % 16)>> \o Hex(Tail(b))

Thrown(name) == [ok |-> FALSE, thrown |-> name]

\* whether objectList.includes(value), for a value decoded afresh: a string or
\* a number is found by value, a new object (SizedInt, Buffer) never
Includes(objectList, value) ==
    value.t \in {"string", "number", "float", "undefined"} /\ IndexOf(objectList, value, 1) > 0

\* unpackInternal(data, objectList): [ok, value, remaining, list], or
\* [ok |-> FALSE, thrown] where the code throws
RECURSIVE unpackInternal(_, _)
RECURSIVE unpackItems(_, _, _, _, _)

\* the loop of an array (pairs = FALSE) or dictionary (pairs = TRUE) with
\* `count` items left, or endless (count = -1) up to the terminator 0x03
unpackItems(ptr, objectList, count, pairs, acc) ==
    IF count = 0 \/ (count = -1 /\ Len(ptr) > 0 /\ ptr[1] = 3)
    THEN [ok |-> TRUE, out |-> acc, list |-> objectList,
          remaining |-> IF count = -1 THEN subarray(ptr, 1, Len(ptr)) ELSE ptr]
    ELSE LET left == IF count = -1 THEN -1 ELSE count - 1
             first(r1) ==
                 LET second(r2) ==
                         IF ~r2.ok THEN r2
                         ELSE unpackItems(r2.remaining, r2.list, left, pairs,
                                          SetKey(acc, String(r1.value), r2.value))
                 IN  IF ~r1.ok THEN r1
                     ELSE IF ~pairs
                     THEN unpackItems(r1.remaining, r1.list, left, pairs,
                                      Append(acc, r1.value))
                     ELSE second(unpackInternal(r1.remaining, r1.list))
         IN  first(unpackInternal(ptr, objectList))

unpackInternal(data, objectList) ==
    IF Len(data) = 0 THEN Thrown("TypeError")
    ELSE
    LET tag == data[1]
        low == tag % 16
        rest(n) == subarray(data, n, Len(data))
        \* [ok, value, remaining, list, add, fresh]
        plain(value, n, add) ==
            [ok |-> TRUE, value |-> value, remaining |-> rest(n), list |-> objectList,
             add |-> add, fresh |-> TRUE]
        sized(n, lenBytes, mk(_)) ==
            \* subarray clips at the end of data: a length beyond it is as
            \* good as the length of data
            LET length == Min(readLE(data, 1, lenBytes), Len(data))
            IN  IF length = -1 THEN Thrown("RangeError")
                ELSE plain(mk(subarray(data, 1 + n, 1 + n + length)), 1 + n + length, TRUE)
        reference(index, n) ==
            IF index = -1 THEN Thrown("RangeError")
            ELSE [ok |-> TRUE, remaining |-> rest(n), list |-> objectList, add |-> TRUE,
                  value |-> IF index < Len(objectList) THEN objectList[index + 1]
                            ELSE Undefined,
                  fresh |-> index >= Len(objectList)]
        composite(pairs) ==
            LET made(r) ==
                    IF ~r.ok THEN r
                    ELSE [ok |-> TRUE, value |-> IF pairs THEN Obj(r.out) ELSE Arr(r.out),
                          remaining |-> r.remaining, list |-> r.list, add |-> FALSE,
                          fresh |-> TRUE]
            IN  made(unpackItems(rest(1), objectList, IF low = 15 THEN -1 ELSE low, pairs,
                                 <<>>))
        \* the object list: a decoded value not yet in it is remembered
        listed(r) ==
            IF ~r.ok THEN r
            ELSE [ok |-> TRUE, value |-> r.value, remaining |-> r.remaining,
                  list |-> IF r.add /\ r.fresh /\ ~Includes(r.list, r.value)
                           THEN Append(r.list, r.value) ELSE r.list]
        decoded ==
            CASE tag = 1 -> plain(Bool(TRUE), 1, FALSE)
              [] tag = 2 -> plain(Bool(FALSE), 1, FALSE)
              [] tag = 4 -> plain(Null, 1, FALSE)
              [] tag = 5 -> plain(Str(Hex(subarray(data, 1, 17))), 17, TRUE)
              [] tag = 6 ->
                    IF readLE(data, 1, 8) = -1 THEN Thrown("RangeError")
                    ELSE plain(Num(readLE(data, 1, 8)), 9, TRUE)
              [] tag >= 8 /\ tag <= 47 -> plain(Num(tag - 8), 1, FALSE)
              [] tag = 53 ->
                    IF Len(data) < 5 THEN Thrown("RangeError")
                    ELSE plain(Float(subarray(data, 1, 5)), 5, TRUE)
              [] tag = 54 ->
                    IF Len(data) < 9 THEN Thrown("RangeError")
                    ELSE plain(Float(subarray(data, 1, 9)), 9, TRUE)
              [] tag \in 48..63 \ {53, 54} ->
                    LET numBytes == Pow2(low)
                        width == IF numBytes \in {1, 2, 4} THEN numBytes ELSE 8
                        intValue == readLE(data, 1, width)
                    IN  IF intValue = -1 THEN Thrown("RangeError")
                        ELSE plain(SizedInt(intValue, numBytes), 1 + numBytes, TRUE)
              [] tag >= 64 /\ tag <= 96 ->
                    plain(Str(subarray(data, 1, 1 + (tag - 64))), 1 + (tag - 64), TRUE)
              [] tag > 96 /\ tag <= 100 -> sized(low, low, Str)
              [] tag >= 112 /\ tag <= 144 ->
                    plain(Buf(subarray(data, 1, 1 + (tag - 112))), 1 + (tag - 112), TRUE)
              [] tag >= 145 /\ tag <= 148 -> sized(Pow2(low - 1), Pow2(low - 1), Buf)
              [] tag >= 208 /\ tag <= 223 -> composite(FALSE)
              [] tag >= 224 -> composite(TRUE)
              [] tag >= 160 /\ tag <= 192 -> reference(tag - 160, 1)
              [] tag >= 193 /\ tag <= 196 ->
                    reference(readLE(data, 1, tag - 192), 1 + (tag - 192))
              [] OTHER -> Thrown("TypeError")
    IN  listed(decoded)

\* unpack(data)
unpack(data) == unpackInternal(data, <<>>)

----------------------------------------------------------------------------
(* TLV8.  A Map<number, Buffer> is the sequence of its entries [tag, value]   *)
(* in insertion order.                                                        *)

Method == 0
Identifier == 1
Salt == 2
PublicKey == 3
Proof == 4
EncryptedData == 5
SeqNo == 6
Error == 7
BackOff == 8
Signature == 10
Name == 17

TlvIndex(map, tag) ==
    IF \E i \in 1..Len(map) : map[i].tag = tag
    THEN CHOOSE i \in 1..Len(map) : map[i].tag = tag
    ELSE 0

\* Map.has, Map.get (of a tag that is there) and Map.set
TlvHas(map, tag) == TlvIndex(map, tag) > 0
TlvGet(map, tag) == map[TlvIndex(map, tag)].value
TlvSet(map, tag, value) ==
    IF TlvHas(map, tag)
    THEN [map EXCEPT ![TlvIndex(map, tag)].value = value]
    ELSE Append(map, [tag |-> tag, value |-> value])

\* readTlvFrom with a repeated tag replacing the value it has
RECURSIVE readTlvLastChunk(_, _, _)
readTlvLastChunk(data, pos, result) ==
    IF pos >= Len(data) THEN result
    ELSE LET tag == data[pos + 1]
             hasLength == pos + 1 < Len(data)
             length == IF hasLength THEN data[pos + 2] ELSE 0
             value == subarray(data, pos + 2, pos + 2 + length)
             result1 == TlvSet(result, tag, value)
         IN  IF hasLength THEN readTlvLastChunk(data, pos + 2 + length, result1)
             ELSE result1

\* the loop of readTlv from position pos.  With the length byte missing,
\* data[pos + 1] is undefined: the slice is empty and pos becomes NaN, which
\* ends the loop.
RECURSIVE readTlvFrom(_, _, _)
readTlvFrom(data, pos, result) ==
    IF pos >= Len(data) THEN result
    ELSE LET tag == data[pos + 1]
             hasLength == pos + 1 < Len(data)
             length == IF hasLength THEN data[pos + 2] ELSE 0
             value == subarray(data, pos + 2, pos + 2 + length)
             result1 == IF TlvHas(result, tag)
                        THEN TlvSet(result, tag, TlvGet(result, tag) \o value)
                        ELSE TlvSet(result, tag, value)
         IN  IF hasLength THEN readTlvFrom(data, pos + 2 + length, result1) ELSE result1

\* readTlv(data)
readTlv(data) == readTlvFrom(data, 0, <<>>)

\* writeChunks with the loop running while remaining >= 0: a value of a
\* multiple of 255 bytes ends with an empty chunk
RECURSIVE writeChunksTrailing(_, _)
writeChunksTrailing(tag, value) ==
    IF Len(value) < 255 THEN <<tag, Len(value)>> \o value
    ELSE <<tag, 255>> \o SubSeq(value, 1, 255)
         \o writeChunksTrailing(tag, SubSeq(value, 256, Len(value)))

\* the chunks writeTlv makes of one value: at most 255 bytes each
RECURSIVE writeChunks(_, _)
writeChunks(tag, value) ==
    IF Len(value) <= 255 THEN <<tag, Len(value)>> \o value
    ELSE <<tag, 255>> \o SubSeq(value, 1, 255)
         \o writeChunks(tag, SubSeq(value, 256, Len(value)))

\* writeTlv(data)
RECURSIVE writeTlv(_)
writeTlv(map) ==
    IF map = <<>> THEN <<>>
    ELSE writeChunks(map[1].tag, map[1].value) \o writeTlv(Tail(map))

----------------------------------------------------------------------------
(* X25519, Ed25519 and HKDF (library primitives) as arithmetic modulo a      *)
(* prime.  Keys, secrets and digests are one byte long.  A private exponent  *)
(* is prime to Modulus - 1, so that different public keys give different     *)
(* shared secrets.                                                           *)

Modulus == 251
Generator == 6

RECURSIVE ModExp(_, _)
ModExp(b, e) ==
    IF e = 0 THEN 1
    ELSE IF e % 2 = 1 THEN (b * ModExp((b * b) % Modulus, e \div 2)) % Modulus
    ELSE ModExp((b * b) % Modulus, e \div 2)

x25519GetPublicKey(privateKey) == <<ModExp(Generator, privateKey[1])>>

\* x25519SharedSecret(privateKey, publicKey)
x25519SharedSecret(privateKey, publicKey) == <<ModExp(publicKey[1], privateKey[1])>>

ed25519GetPublicKey(privateKey) == <<(3 * privateKey[1] + 1) % Modulus>>

\* ed25519Sign(privateKey, message)
ed25519Sign(privateKey, message) ==
    <<Digest(ed25519GetPublicKey(privateKey) \o message), Digest(message)>>

\* a verification that accepts every signature
ed25519VerifyAny(publicKey, message, signature) == TRUE

\* ed25519Verify(publicKey, message, signature): false also where the library
\* throws
ed25519Verify(publicKey, message, signature) ==
    signature = <<Digest(publicKey \o message), Digest(message)>>

\* hkdfExpand(salt, info, sharedSecret)
hkdfExpand(salt, info, sharedSecret) == <<Digest(salt \o info \o sharedSecret)>>

\* the strings of the key derivations and of the Pair-Verify nonces
SRP_SALT == <<>>
SRP_OUTPUT_INFO == <<67, 108, 105, 101, 110, 116, 69, 110, 99, 114, 121, 112, 116, 45, 109, 97, 105, 110>>
SRP_INPUT_INFO == <<83, 101, 114, 118, 101, 114, 69, 110, 99, 114, 121, 112, 116, 45, 109, 97, 105, 110>>
PairVerifyEncryptSalt == <<80, 97, 105, 114, 45, 86, 101, 114, 105, 102, 121, 45, 69, 110, 99, 114, 121, 112, 116, 45, 83, 97, 108, 116>>
PairVerifyEncryptInfo == <<80, 97, 105, 114, 45, 86, 101, 114, 105, 102, 121, 45, 69, 110, 99, 114, 121, 112, 116, 45, 73, 110, 102, 111>>
PVMsg02 == <<80, 86, 45, 77, 115, 103, 48, 50>>
PVMsg03 == <<80, 86, 45, 77, 115, 103, 48, 51>>

----------------------------------------------------------------------------
(* The client as one record: every handler below is a function from this     *)
(* record to the record after the handler has run.  `thrown` is what the     *)
(* handler threw ("" when it returned).                                      *)

Client ==
    [socket |-> socket, sockState |-> sockState, buffer |-> buffer, chacha |-> chacha,
     attached |-> attached, written |-> written, frames |-> frames,
     connErrors |-> connErrors, connErrListener |-> connErrListener, crashed |-> crashed,
     xid |-> xid, queues |-> queues, isStarted |-> isStarted, calls |-> calls,
     protoErrors |-> protoErrors, protoErrListener |-> protoErrListener,
     srp |-> srp, task |-> task, pairSetup |-> pairSetup, api |-> api,
     thrown |-> "", handed |-> <<>>, emitted |-> <<>>]

Assign(m) ==
    /\ socket' = m.socket
    /\ sockState' = m.sockState
    /\ buffer' = m.buffer
    /\ chacha' = m.chacha
    /\ attached' = m.attached
    /\ written' = m.written
    /\ frames' = m.frames
    /\ connErrors' = m.connErrors
    /\ connErrListener' = m.connErrListener
    /\ crashed' = m.crashed
    /\ xid' = m.xid
    /\ queues' = m.queues
    /\ isStarted' = m.isStarted
    /\ calls' = m.calls
    /\ protoErrors' = m.protoErrors
    /\ protoErrListener' = m.protoErrListener
    /\ srp' = m.srp
    /\ task' = m.task
    /\ pairSetup' = m.pairSetup
    /\ api' = m.api

----------------------------------------------------------------------------
(* CompanionConnection *)

\* enableEncryption(outputKey, inputKey)
enableEncryption(m, outputKey, inputKey) ==
    [m EXCEPT !.chacha = NewCipher(outputKey, inputKey, NONCE_LENGTH)]

\* the header of a frame: 1 byte frame type + 3 bytes payload length
frameHeader(frameType, payloadLength) == <<frameType % 256>> \o writeUIntBE3(payloadLength)

\* a header length that forgets the tag
sendLengthPlain(m, data) == Len(data)

\* the length send() writes into the header
sendLength(m, data) ==
    IF m.chacha.set /\ Len(data) > 0 THEN Len(data) + AUTH_TAG_LENGTH ELSE Len(data)

\* send(frameType, data)
send(m, frameType, data) ==
    IF m.socket = 0
    THEN [m EXCEPT !.thrown = "Not connected"]
    ELSE LET payloadLength == sendLength(m, data)
             header == frameHeader(frameType, payloadLength)
             sealed == m.chacha.set /\ Len(data) > 0
             write(e) ==
                 [m EXCEPT !.chacha = e.c,
                           !.written = Append(@, [bytes |-> header \o e.out,
                                                  type |-> frameType, plain |-> data,
                                                  sealed |-> sealed, ctr |-> e.ctr,
                                                  sock |-> m.socket])]
         IN  IF payloadLength > 16777215
             THEN [m EXCEPT !.thrown = "RangeError"]
             ELSE write(IF sealed THEN encrypt(m.chacha, data, NonceUndefined, header)
                        ELSE [c |-> m.chacha, ok |-> TRUE, out |-> data, ctr |-> -1])

\* this.emit('error', err) of the connection: with no listener emit throws
emitConnError(m, err) ==
    IF m.connErrListener
    THEN [m EXCEPT !.connErrors = Append(@, err)]
    ELSE [m EXCEPT !.crashed = TRUE, !.thrown = "Unhandled error"]

\* connect(): a new Socket, its listeners, socket.connect(port, host)
connect(m) ==
    [m EXCEPT !.socket = Len(m.sockState) + 1,
              !.sockState = Append(@, "connecting")]

\* close()
close(m) ==
    IF m.socket # 0
    THEN [m EXCEPT !.sockState[m.socket] = "destroyed", !.socket = 0]
    ELSE m

\* the 'close' listener of a socket
onSocketClose(m, id) ==
    [m EXCEPT !.sockState[id] = "closed", !.socket = 0]

----------------------------------------------------------------------------
(* CompanionProtocol *)

Err(name, msg) == [name |-> name, msg |-> msg]
NoError == [name |-> ""]
TimeoutError(timeout) ==
    [name |-> "Error", msg |-> "Timeout waiting for response", ms |-> timeout]
CommandFailed(em) == [name |-> "Error", msg |-> "Command failed", em |-> String(em)]
ProtocolStopped == Err("Error", "Protocol stopped")

\* queues.get / set / delete
QIndex(q, key) ==
    IF \E i \in 1..Len(q) : q[i].key = key
    THEN CHOOSE i \in 1..Len(q) : q[i].key = key
    ELSE 0

queuesSet(q, key, c) ==
    IF QIndex(q, key) > 0
    THEN [q EXCEPT ![QIndex(q, key)] = [key |-> key, call |-> c]]
    ELSE Append(q, [key |-> key, call |-> c])

\* a delete that empties the table
queuesDeleteAll(q, key) == <<>>

queuesDelete(q, key) == SelectSeq(q, LAMBDA entry : entry.key # key)

\* the resolve and reject of a promise: only the first of them settles it
resolve(m, c, value) ==
    IF m.calls[c].state = "pending"
    THEN [m EXCEPT !.calls[c].state = "resolved", !.calls[c].val = value]
    ELSE m

reject(m, c, err) ==
    IF m.calls[c].state = "pending"
    THEN [m EXCEPT !.calls[c].state = "rejected", !.calls[c].err = err]
    ELSE m

clearTimeout(m, c) ==
    IF m.calls[c].timer = "armed" THEN [m EXCEPT !.calls[c].timer = "cleared"] ELSE m

\* exchangeGenericOpack(frameType, data, identifier, timeout); `kind` records
\* which of exchangeAuth and exchangeOpack made the call
exchangeGenericOpack(m, kind, frameType, data, identifier, timeout) ==
    LET c  == Len(m.calls) + 1
        m1 == [m EXCEPT !.calls = Append(@, [kind |-> kind, ft |-> frameType,
                                             id |-> identifier, ms |-> timeout,
                                             state |-> "pending", timer |-> "armed",
                                             val |-> Undefined, err |-> NoError]),
                        !.queues = queuesSet(@, identifier, c)]
        sent(m2) ==
            IF m2.thrown # ""
            THEN reject([m2 EXCEPT !.thrown = ""], c, Err("Error", m2.thrown))
            ELSE m2
    IN  sent(send(m1, frameType, pack(data)))

\* a timeout argument left out takes the default
NoTimeout == 0
timeoutOrDefault(timeout) == IF timeout = NoTimeout THEN DEFAULT_TIMEOUT ELSE timeout

\* an exchangeAuth that registers every request under its own frame type
exchangeAuthByType(m, frameType, data, timeout) ==
    exchangeGenericOpack(m, "auth", frameType, data, frameType, timeoutOrDefault(timeout))

\* exchangeAuth(frameType, data, timeout)
exchangeAuth(m, frameType, data, timeout) ==
    LET identifier == IF frameType = PS_Start THEN PS_Next
                      ELSE IF frameType = PV_Start THEN PV_Next
                      ELSE frameType
    IN  exchangeGenericOpack(m, "auth", frameType, data, identifier,
                             timeoutOrDefault(timeout))

\* an exchangeOpack that does not advance the counter
exchangeOpackSameXid(m, frameType, data, timeout) ==
    exchangeGenericOpack(m, "opack", frameType, Obj(SetKey(data.e, Key_x, Num(m.xid))),
                         m.xid, timeoutOrDefault(timeout))

\* exchangeOpack(frameType, data, timeout)
exchangeOpack(m, frameType, data, timeout) ==
    exchangeGenericOpack([m EXCEPT !.xid = @ + 1], "opack", frameType,
                         Obj(SetKey(data.e, Key_x, Num(m.xid))), m.xid,
                         timeoutOrDefault(timeout))

\* sendOpack(frameType, data)
sendOpack(m, frameType, data) ==
    IF In(data, Key_x)
    THEN send(m, frameType, pack(data))
    ELSE send([m EXCEPT !.xid = @ + 1], frameType,
              pack(Obj(SetKey(data.e, Key_x, Num(m.xid)))))

\* a timer callback that fails the caller and leaves the entry in the table
timerFiredKeeping(m, c) ==
    reject([m EXCEPT !.calls[c].timer = "fired"], c, TimeoutError(m.calls[c].ms))

\* a timer callback that removes the entry and forgets the caller
timerFiredSilent(m, c) ==
    [m EXCEPT !.queues = queuesDelete(@, m.calls[c].id), !.calls[c].timer = "fired"]

\* the callback of the timer of call c
timerFired(m, c) ==
    reject([m EXCEPT !.queues = queuesDelete(@, m.calls[c].id), !.calls[c].timer = "fired"],
           c, TimeoutError(m.calls[c].ms))

\* handleAuth(frameType, data)
handleAuth(m, frameType, data) ==
    LET i == QIndex(m.queues, frameType)
    IN  IF i = 0 THEN m
        ELSE LET c == m.queues[i].call
             IN  resolve(clearTimeout([m EXCEPT !.queues = queuesDelete(@, frameType)], c),
                         c, data)

\* a handleOpack that completes the request named by _x whatever _t is
handleOpackAnyType(m, data) ==
    LET key == Number(Get(data, Key_x))
        i == QIndex(m.queues, key)
        emitted(m1) ==
            IF Number(Get(data, Key_t)) = Event
            THEN [m1 EXCEPT !.emitted = Append(@, [name |-> Get(data, Key_i),
                                                   body |-> Get(data, Key_c)])]
            ELSE m1
    IN  IF i = 0 THEN emitted(m)
        ELSE emitted(resolve(clearTimeout([m EXCEPT !.queues = queuesDelete(@, key)],
                                          m.queues[i].call),
                             m.queues[i].call, data))

\* a handleOpack that reports a response nobody waits for as an event
handleOpackLoud(m, data) ==
    LET messageType == Number(Get(data, Key_t))
        key == Number(Get(data, Key_x))
        i == QIndex(m.queues, key)
        settled(m1, c) ==
            IF In(data, Key_em) THEN reject(m1, c, CommandFailed(Get(data, Key_em)))
            ELSE resolve(m1, c, data)
    IN  IF messageType = Event \/ (messageType = Response /\ i = 0)
        THEN [m EXCEPT !.emitted = Append(@, [name |-> Get(data, Key_i),
                                             body |-> Get(data, Key_c)])]
        ELSE IF messageType = Response
        THEN settled(clearTimeout([m EXCEPT !.queues = queuesDelete(@, key)],
                                  m.queues[i].call),
                     m.queues[i].call)
        ELSE m

\* handleOpack(data)
handleOpack(m, data) ==
    LET messageType == Number(Get(data, Key_t))
    IN  IF messageType = Event
        THEN [m EXCEPT !.emitted = Append(@, [name |-> Get(data, Key_i),
                                             body |-> Get(data, Key_c)])]
        ELSE IF messageType = Response
        THEN LET key == Number(Get(data, Key_x))
                 i == QIndex(m.queues, key)
             IN  IF i = 0 THEN m
                 ELSE LET c == m.queues[i].call
                          m1 == clearTimeout([m EXCEPT !.queues = queuesDelete(@, key)], c)
                      IN  IF In(data, Key_em)
                          THEN reject(m1, c, CommandFailed(Get(data, Key_em)))
                          ELSE resolve(m1, c, data)
        ELSE m

\* this.emit('error', err) of the protocol: with no listener emit throws err
emitProtoError(m, err) ==
    IF m.protoErrListener
    THEN [m EXCEPT !.protoErrors = Append(@, err)]
    ELSE [m EXCEPT !.thrown = err]

\* handleFrame(frameType, data), the connection's 'frame' listener
handleFrame(m, frameType, data) ==
    IF frameType \notin OPACK_FRAMES /\ frameType \notin AUTH_FRAMES
    THEN m
    ELSE LET dispatch(u) ==
                 IF ~u.ok THEN emitProtoError(m, u.thrown)
                 ELSE IF ~IsObject(u.value) THEN m
                 ELSE IF frameType \in AUTH_FRAMES THEN handleAuth(m, frameType, u.value)
                 ELSE handleOpack(m, u.value)
         IN  dispatch(unpack(data))

\* the loop of stop() over the entries of queues
RECURSIVE rejectAll(_, _)
rejectAll(m, i) ==
    IF i > Len(m.queues) THEN m
    ELSE rejectAll(reject(clearTimeout(m, m.queues[i].call), m.queues[i].call,
                          ProtocolStopped), i + 1)

\* a stop() that leaves the protocol started
stopStarted(m) == close([rejectAll(m, 1) EXCEPT !.queues = <<>>])

\* stop()
stop(m) ==
    [close([rejectAll(m, 1) EXCEPT !.queues = <<>>]) EXCEPT !.isStarted = FALSE]

----------------------------------------------------------------------------
(* SRPAuthHandler: Pair-Verify *)

\* the pairingId of the handler (a UUID), and the private keys
\* generateEd25519KeyPair() may return
PairingId == <<80>>
SigningKeys == {<<5>>, <<11>>}

\* SRPAuthHandler.srpSession when it is null
NoSession == [key |-> <<>>, proof |-> <<>>]

\* the handler after construction: its pairingId and no keys (<<>> is null).
\* `entropy` and `signingEntropy` are the private keys the next
\* generateX25519KeyPair() and generateEd25519KeyPair() return.
NoKeys == [verifyKey |-> <<>>, sharedSecret |-> <<>>, entropy |-> <<>>,
           pairingId |-> PairingId, signingKey |-> <<>>, signingEntropy |-> <<5>>,
           srpClient |-> FALSE, pin |-> <<>>, srpEphemeral |-> <<>>,
           srpSession |-> NoSession, sessionKey |-> <<>>,
           ran |-> {}, verified |-> FALSE]

\* HapCredentials
NoCredentials == [none |-> TRUE]

AuthenticationError(msg) == [name |-> "AuthenticationError", msg |-> msg]

\* initialize().  `ran` records the steps that have worked on the handler, and
\* `verified` whether verify1 has returned since initialize() was last called
initialize(h) ==
    [h EXCEPT !.signingKey = h.signingEntropy, !.verifyKey = h.entropy,
              !.ran = @ \cup {"initialize"}, !.verified = FALSE]

\* verify1(credentials, sessionPubKey, encrypted): the handler afterwards,
\* whether the call returned (ok) or threw, and the bytes returned
verify1(h, credentials, sessionPubKey, encrypted) ==
    IF h.verifyKey = <<>>
    THEN [srp |-> h, ok |-> FALSE, thrown |-> Err("Error", "Keys not initialized")]
    ELSE
    LET sharedSecret == x25519SharedSecret(h.verifyKey, sessionPubKey)
        h1 == [h EXCEPT !.sharedSecret = sharedSecret, !.ran = @ \cup {"verify1"}]
        sessionKey == hkdfExpand(PairVerifyEncryptSalt, PairVerifyEncryptInfo, sharedSecret)
        chacha8 == NewCipher(sessionKey, sessionKey, 8)
        throw(err) == [srp |-> h1, ok |-> FALSE, thrown |-> err]
        response(identifier) ==
            LET deviceInfo == x25519GetPublicKey(h.verifyKey) \o credentials.clientId
                              \o sessionPubKey
                deviceSignature == ed25519Sign(credentials.ltsk, deviceInfo)
                tlv == writeTlv(<<[tag |-> Identifier, value |-> credentials.clientId],
                                  [tag |-> Signature, value |-> deviceSignature]>>)
            IN  [srp |-> [h1 EXCEPT !.verified = TRUE], ok |-> TRUE,
                 out |-> encrypt(chacha8, tlv, NonceString(PVMsg03), <<>>).out]
        verified(decryptedTlv) ==
            IF ~TlvHas(decryptedTlv, Identifier) \/ ~TlvHas(decryptedTlv, Signature)
            THEN throw(AuthenticationError("Missing identifier or signature in response"))
            ELSE IF TlvGet(decryptedTlv, Identifier) # credentials.atvId
            THEN throw(AuthenticationError("Incorrect device response"))
            ELSE IF ~ed25519Verify(credentials.ltpk,
                                   sessionPubKey \o TlvGet(decryptedTlv, Identifier)
                                   \o x25519GetPublicKey(h.verifyKey),
                                   TlvGet(decryptedTlv, Signature))
            THEN throw(AuthenticationError("Signature verification failed"))
            ELSE response(TlvGet(decryptedTlv, Identifier))
        decrypted(d) ==
            \* chacha.decrypt throws the cipher library's Error
            IF ~d.ok THEN throw(Err("Error", "invalid tag"))
            ELSE verified(readTlv(d.out))
    IN  decrypted(decrypt(chacha8, encrypted, NonceString(PVMsg02), <<>>))

\* verify2(salt, outputInfo, inputInfo)
verify2(h, salt, outputInfo, inputInfo) ==
    IF h.sharedSecret = <<>>
    THEN [ok |-> FALSE, thrown |-> Err("Error", "Shared secret not established")]
    ELSE [ok |-> TRUE,
          outputKey |-> hkdfExpand(salt, outputInfo, h.sharedSecret),
          inputKey |-> hkdfExpand(salt, inputInfo, h.sharedSecret)]

----------------------------------------------------------------------------
(* SRPAuthHandler: Pair-Setup.  SRP-6a (the js-srp6a library) in the group   *)
(* modulo Modulus: exponents are taken modulo Modulus - 1, hashes are Digest. *)

\* the strings of Pair-Setup: the SRP user name, the salts and infos of the
\* key derivations, the nonces
PairSetupUser == <<80, 97, 105, 114, 45, 83, 101, 116, 117, 112>>
PairSetupControllerSignSalt == <<80, 97, 105, 114, 45, 83, 101, 116, 117, 112, 45, 67, 111, 110, 116, 114, 111, 108, 108, 101, 114, 45, 83, 105, 103, 110, 45, 83, 97, 108, 116>>
PairSetupControllerSignInfo == <<80, 97, 105, 114, 45, 83, 101, 116, 117, 112, 45, 67, 111, 110, 116, 114, 111, 108, 108, 101, 114, 45, 83, 105, 103, 110, 45, 73, 110, 102, 111>>
PairSetupEncryptSalt == <<80, 97, 105, 114, 45, 83, 101, 116, 117, 112, 45, 69, 110, 99, 114, 121, 112, 116, 45, 83, 97, 108, 116>>
PairSetupEncryptInfo == <<80, 97, 105, 114, 45, 83, 101, 116, 117, 112, 45, 69, 110, 99, 114, 121, 112, 116, 45, 73, 110, 102, 111>>
PSMsg05 == <<80, 83, 45, 77, 115, 103, 48, 53>>
PSMsg06 == <<80, 83, 45, 77, 115, 103, 48, 54>>

\* the multiplier k of SRP-6a
SrpMultiplier == 3

\* a buffer read as a number: its first byte, 0 for the empty buffer
BigInt(b) == IF b = <<>> THEN 0 ELSE b[1]

\* srpClient.derivePrivateKey(salt, user, password): x = H(s | H(I ":" P))
derivePrivateKey(salt, user, password) == Digest(salt \o user \o <<58>> \o password)

\* computePublicEphemeral(secretHex): A = g^a mod N
computePublicEphemeral(secret) ==
    <<ModExp(Generator, BigInt(secret) % (Modulus - 1))>>

\* srpClient.deriveSession(secret, serverPublic, salt, user, x): the session
\* key K = H((B - k g^x)^(a + u x)) and the client proof M1
deriveSession(secret, serverPublic, salt, user, x) ==
    LET a == BigInt(secret)
        A == computePublicEphemeral(secret)
        u == Digest(A \o serverPublic)
        base == (BigInt(serverPublic) + Modulus
                 - ((SrpMultiplier * ModExp(Generator, x)) % Modulus)) % Modulus
        S == ModExp(base, (a + (u * x)) % (Modulus - 1))
        K == <<Digest(<<S>>)>>
    IN  [key |-> K, proof |-> <<Digest(salt \o A \o serverPublic \o K)>>]

\* the server proof M2 = H(A | M1 | K) that belongs to a session
serverProof(A, clientProof, K) == <<Digest(A \o clientProof \o K)>>

\* step1(pin)
step1(h, pin) ==
    IF h.signingKey = <<>>
    THEN [srp |-> h, ok |-> FALSE, thrown |-> Err("Error", "Keys not initialized")]
    ELSE [srp |-> [h EXCEPT !.srpClient = TRUE, !.pin = pin,
                            !.srpEphemeral = h.signingKey,
                            !.ran = @ \cup {"step1"}],
          ok |-> TRUE]

\* step2(atvPubKey, atvSalt): the client's public key and its proof
step2(h, atvPubKey, atvSalt) ==
    IF ~h.srpClient \/ h.srpEphemeral = <<>> \/ h.pin = <<>>
    THEN [srp |-> h, ok |-> FALSE, thrown |-> Err("Error", "SRP not initialized")]
    ELSE LET x == derivePrivateKey(atvSalt, PairSetupUser, h.pin)
             derived(session) ==
                 [srp |-> [h EXCEPT !.srpSession = session, !.ran = @ \cup {"step2"}],
                  ok |-> TRUE,
                  pubKey |-> computePublicEphemeral(h.srpEphemeral),
                  proof |-> session.proof]
         IN  derived(deriveSession(h.srpEphemeral, atvPubKey, atvSalt, PairSetupUser, x))

\* the TLV step3 seals: Identifier, PublicKey, Signature and, with a name,
\* Name
deviceInfoTlv(h, iosDeviceX, name) ==
    LET publicKey == ed25519GetPublicKey(h.signingKey)
        deviceInfo == iosDeviceX \o h.pairingId \o publicKey
    IN  <<[tag |-> Identifier, value |-> h.pairingId],
          [tag |-> PublicKey, value |-> publicKey],
          [tag |-> Signature, value |-> ed25519Sign(h.signingKey, deviceInfo)]>>
        \o (IF name = <<>> THEN <<>>
            ELSE <<[tag |-> Name,
                    value |-> pack(Obj(<<[k |-> Key_name, v |-> Str(name)]>>))]>>)

\* a step3 that asks for the signing key only
step3Unguarded(h, name) ==
    IF h.signingKey = <<>>
    THEN [srp |-> h, ok |-> FALSE, thrown |-> Err("Error", "SRP session not established")]
    ELSE LET sessionKeyBytes == h.srpSession.key
             iosDeviceX == hkdfExpand(PairSetupControllerSignSalt,
                                      PairSetupControllerSignInfo, sessionKeyBytes)
             sessionKey == hkdfExpand(PairSetupEncryptSalt, PairSetupEncryptInfo,
                                      sessionKeyBytes)
         IN  [srp |-> [h EXCEPT !.sessionKey = sessionKey, !.ran = @ \cup {"step3"}],
              ok |-> TRUE,
              out |-> encrypt(NewCipher(sessionKey, sessionKey, 8),
                              writeTlv(deviceInfoTlv(h, iosDeviceX, name)),
                              NonceString(PSMsg05), <<>>).out]

\* step3(name): the encrypted device info
step3(h, name) ==
    IF h.srpSession.key = <<>> \/ h.signingKey = <<>>
    THEN [srp |-> h, ok |-> FALSE, thrown |-> Err("Error", "SRP session not established")]
    ELSE LET sessionKeyBytes == h.srpSession.key
             iosDeviceX == hkdfExpand(PairSetupControllerSignSalt,
                                      PairSetupControllerSignInfo, sessionKeyBytes)
             sessionKey == hkdfExpand(PairSetupEncryptSalt, PairSetupEncryptInfo,
                                      sessionKeyBytes)
         IN  [srp |-> [h EXCEPT !.sessionKey = sessionKey, !.ran = @ \cup {"step3"}],
              ok |-> TRUE,
              out |-> encrypt(NewCipher(sessionKey, sessionKey, 8),
                              writeTlv(deviceInfoTlv(h, iosDeviceX, name)),
                              NonceString(PSMsg05), <<>>).out]

\* a step4 that takes the device's identifier for the client's
step4OwnIdentifier(h, encryptedData) ==
    LET opened == decrypt(NewCipher(h.sessionKey, h.sessionKey, 8), encryptedData,
                          NonceString(PSMsg06), <<>>)
        decryptedTlv == readTlv(opened.out)
    IN  IF ~opened.ok \/ ~TlvHas(decryptedTlv, Identifier)
           \/ ~TlvHas(decryptedTlv, PublicKey)
        THEN [ok |-> FALSE, thrown |-> AuthenticationError("Data decrypt failed")]
        ELSE [ok |-> TRUE,
              credentials |-> [ltpk |-> TlvGet(decryptedTlv, PublicKey),
                               ltsk |-> h.signingKey,
                               atvId |-> TlvGet(decryptedTlv, Identifier),
                               clientId |-> TlvGet(decryptedTlv, Identifier)]]

\* step4(encryptedData): the credentials, or what it threw
step4(h, encryptedData) ==
    IF h.sessionKey = <<>> \/ h.signingKey = <<>>
    THEN [ok |-> FALSE, thrown |-> Err("Error", "Session key not established")]
    ELSE LET throw(err) == [ok |-> FALSE, thrown |-> err]
             read(decryptedTlv) ==
                 IF ~TlvHas(decryptedTlv, Identifier) \/ ~TlvHas(decryptedTlv, PublicKey)
                 THEN throw(AuthenticationError(
                                "Missing identifier or public key in response"))
                 ELSE [ok |-> TRUE,
                       credentials |-> [ltpk |-> TlvGet(decryptedTlv, PublicKey),
                                        ltsk |-> h.signingKey,
                                        atvId |-> TlvGet(decryptedTlv, Identifier),
                                        clientId |-> h.pairingId]]
             decrypted(d) ==
                 \* chacha.decrypt throws the cipher library's Error
                 IF ~d.ok THEN throw(Err("Error", "invalid tag"))
                 ELSE IF Len(d.out) = 0
                 THEN throw(AuthenticationError("Data decrypt failed"))
                 ELSE read(readTlv(d.out))
         IN  decrypted(decrypt(NewCipher(h.sessionKey, h.sessionKey, 8), encryptedData,
                               NonceString(PSMsg06), <<>>))

----------------------------------------------------------------------------
(* CompanionProtocol: start() and setupEncryption().  An async function is   *)
(* the record `task`: pc says at which await it is suspended; resume runs it *)
(* on from there once the promise it awaits is settled.  `trace` lists the   *)
(* steps of the handshake it has passed.                                     *)

NoTask == [pc |-> "none", creds |-> NoCredentials, call |-> 0, err |-> NoError,
           trace |-> <<>>]

\* start(credentials) up to its first await
start(m, credentials) ==
    IF m.isStarted
    THEN [m EXCEPT !.thrown = "Already started"]
    ELSE connect([m EXCEPT !.isStarted = TRUE,
                           !.task = [NoTask EXCEPT !.pc = "connect",
                                                   !.creds = credentials]])

\* the promise of the async function is rejected
fail(m, err) == [m EXCEPT !.task.pc = "failed", !.task.err = err]

passed(m, step) == [m EXCEPT !.task.trace = Append(@, step)]

\* await this.exchangeAuth(...): the task is suspended on the call just made
awaitCall(m, pc) == [m EXCEPT !.task.pc = pc, !.task.call = Len(m.calls)]

\* getPairingData(message)
getPairingData(message) ==
    IF Get(message, Key_pd).t # "Buffer"
    THEN [ok |-> FALSE, thrown |-> Err("Error", "No pairing data in message")]
    ELSE [ok |-> TRUE, map |-> readTlv(Get(message, Key_pd).s)]

\* setupEncryption(credentials) up to `await this.exchangeAuth(PV_Start, ...)`
setupEncryption(m) ==
    LET m1 == [m EXCEPT !.srp = initialize(@)]
        publicKey == x25519GetPublicKey(m1.srp.verifyKey)
    IN  awaitCall(exchangeAuth(m1, PV_Start,
                               Obj(<<[k |-> Key_pd,
                                      v |-> Buf(writeTlv(<<[tag |-> SeqNo, value |-> <<1>>],
                                                           [tag |-> PublicKey,
                                                            value |-> publicKey]>>))],
                                     [k |-> Key_auTy, v |-> Num(4)]>>),
                               NoTimeout),
                  "m2")

\* the message of the second exchange
M3(encryptedData) ==
    Obj(<<[k |-> Key_pd,
           v |-> Buf(writeTlv(<<[tag |-> SeqNo, value |-> <<3>>],
                                [tag |-> EncryptedData, value |-> encryptedData]>>))]>>)

\* a continuation that installs the keys as soon as M3 is on its way
keysWithM3(m, encryptedData) ==
    LET keys == verify2(m.srp, SRP_SALT, SRP_OUTPUT_INFO, SRP_INPUT_INFO)
        keyed(m1) == enableEncryption(m1, keys.outputKey, keys.inputKey)
    IN  awaitCall(keyed(passed(exchangeAuth(m, PV_Next, M3(encryptedData), NoTimeout),
                               "M3")),
                  "m4")

\* `await this.exchangeAuth(PV_Next, ...)` with the bytes verify1 returned
sendM3(m, encryptedData) ==
    LET sent(m1) ==
            IF m1.calls[Len(m1.calls)].state = "pending" THEN passed(m1, "M3") ELSE m1
    IN  awaitCall(sent(exchangeAuth(m, PV_Next, M3(encryptedData), NoTimeout)), "m4")

\* setupEncryption from resp1 to `await this.exchangeAuth(PV_Next, ...)`
afterM2(m) ==
    LET m1 == passed(m, "M2")
        answered(v) ==
            IF ~v.ok THEN fail([m1 EXCEPT !.srp = v.srp], v.thrown)
            ELSE sendM3(passed([m1 EXCEPT !.srp = v.srp], "verify1"), v.out)
        parsed(pairingData1) ==
            IF ~pairingData1.ok THEN fail(m1, pairingData1.thrown)
            ELSE IF \/ ~TlvHas(pairingData1.map, PublicKey)
                    \/ ~TlvHas(pairingData1.map, EncryptedData)
            THEN fail(m1, Err("Error", "Missing server public key or encrypted data"))
            ELSE answered(verify1(m1.srp, m1.task.creds,
                                  TlvGet(pairingData1.map, PublicKey),
                                  TlvGet(pairingData1.map, EncryptedData)))
    IN  parsed(getPairingData(m.calls[m.task.call].val))

\* setupEncryption after the second await: verify2 and enableEncryption, and
\* start() returns
afterM4(m) ==
    LET m1 == passed(m, "M4")
        keyed(keys) ==
            IF ~keys.ok THEN fail(m1, keys.thrown)
            ELSE [passed(enableEncryption(m1, keys.outputKey, keys.inputKey), "keys")
                     EXCEPT !.task.pc = "done"]
    IN  keyed(verify2(m1.srp, SRP_SALT, SRP_OUTPUT_INFO, SRP_INPUT_INFO))

\* the microtasks after a callback: the task runs on while what it awaits is
\* settled
RECURSIVE resume(_)
resume(m) ==
    IF m.crashed THEN m
    ELSE IF m.task.pc = "connect"
    THEN IF m.socket # 0 /\ m.sockState[m.socket] = "open"
         THEN IF m.task.creds = NoCredentials
              THEN [m EXCEPT !.task.pc = "done"]
              ELSE resume(setupEncryption(m))
         ELSE m
    ELSE IF m.task.pc \in {"m2", "m4"}
    THEN IF m.calls[m.task.call].state = "rejected"
         THEN fail(m, m.calls[m.task.call].err)
         ELSE IF m.calls[m.task.call].state = "pending" THEN m
         ELSE IF m.task.pc = "m2" THEN resume(afterM2(m))
         ELSE afterM4(m)
    ELSE m

----------------------------------------------------------------------------
(* CompanionPairSetupProcedure.  startPairing and finishPairing are async    *)
(* functions: `pc` says at which await the procedure is suspended ("m2",     *)
(* "m4", "m6": on the reply to M1, M3, M5), or how its last call ended       *)
(* ("started", "done", "failed").  `trace` lists the calls made and the      *)
(* messages sent and received.                                               *)

\* a Buffer | null field
NoBuffer == [has |-> FALSE]
Buffer(b) == [has |-> TRUE, v |-> b]

NoPairSetup == [atvSalt |-> NoBuffer, atvPubKey |-> NoBuffer, pc |-> "none", call |-> 0,
                err |-> NoError, trace |-> <<>>, displayName |-> <<>>,
                credentials |-> NoCredentials]

\* !v
Falsy(v) ==
    \/ v.t \in {"undefined", "null"}
    \/ v.t = "boolean" /\ ~v.b
    \/ v.t = "number" /\ v.n = 0
    \/ v.t = "string" /\ v.s = <<>>

\* a getPairingData that does not look for TlvValue.Error
getPairingDataAnyTlv(message) ==
    IF Get(message, Key_pd).t # "Buffer"
    THEN [ok |-> FALSE, thrown |-> AuthenticationError("No pairing data in message")]
    ELSE [ok |-> TRUE, map |-> readTlv(Get(message, Key_pd).s)]

\* getPairingData(message) of the pairing procedures
getPairingDataOrThrow(message) ==
    LET pairingData == Get(message, Key_pd)
        throw(msg) == [ok |-> FALSE, thrown |-> AuthenticationError(msg)]
        \* the message ends with the Error value in hex
        refused(code) ==
            [ok |-> FALSE,
             thrown |-> [name |-> "AuthenticationError", msg |-> "Authentication error: ",
                         hex |-> Hex(code)]]
        checked(tlv) ==
            IF TlvHas(tlv, Error) THEN refused(TlvGet(tlv, Error))
            ELSE [ok |-> TRUE, map |-> tlv]
    IN  IF Falsy(pairingData) THEN throw("No pairing data in message")
        ELSE IF pairingData.t # "Buffer" THEN throw("Pairing data has unexpected type")
        ELSE checked(readTlv(pairingData.s))

\* the message of a pairing exchange: { _pd: writeTlv(tlv), _pwTy: 1 }
PairingMessage(tlv) ==
    Obj(<<[k |-> Key_pd, v |-> Buf(writeTlv(tlv))], [k |-> Key_pwTy, v |-> Num(1)]>>)

\* the promise of startPairing or finishPairing is rejected
failPairing(m, err) == [m EXCEPT !.pairSetup.pc = "failed", !.pairSetup.err = err]

passedPairing(m, step) == [m EXCEPT !.pairSetup.trace = Append(@, step)]

\* `await this.protocol.exchangeAuth(...)` of message `step`: the procedure
\* is suspended on the call just made
awaitPairing(m, step, pc) ==
    LET sent == IF m.calls[Len(m.calls)].state = "pending" THEN passedPairing(m, step)
                ELSE m
    IN  [sent EXCEPT !.pairSetup.pc = pc, !.pairSetup.call = Len(m.calls)]

\* startPairing() up to its await
startPairing(m) ==
    LET m1 == passedPairing([m EXCEPT !.srp = initialize(@)], "startPairing")
    IN  awaitPairing(exchangeAuth(m1, PS_Start,
                                  PairingMessage(<<[tag |-> Method, value |-> <<0>>],
                                                   [tag |-> SeqNo, value |-> <<1>>]>>),
                                  NoTimeout),
                     "M1", "m2")

\* startPairing() from resp on
afterSetupM2(m) ==
    LET m1 == passedPairing(m, "M2")
        kept(tlv, tag) == IF TlvHas(tlv, tag) THEN Buffer(TlvGet(tlv, tag)) ELSE NoBuffer
        stored(m2) ==
            IF ~m2.pairSetup.atvSalt.has \/ ~m2.pairSetup.atvPubKey.has
            THEN failPairing(m2, AuthenticationError(
                                     "Missing salt or public key from device"))
            ELSE [m2 EXCEPT !.pairSetup.pc = "started"]
        parsed(pairingData) ==
            IF ~pairingData.ok THEN failPairing(m1, pairingData.thrown)
            ELSE stored([m1 EXCEPT !.pairSetup.atvSalt = kept(pairingData.map, Salt),
                                   !.pairSetup.atvPubKey = kept(pairingData.map, PublicKey)])
    IN  parsed(getPairingDataOrThrow(m.calls[m.pairSetup.call].val))

\* finishPairing(pinCode, displayName) up to its first exchange
finishPairing(m, pinCode, displayName) ==
    LET m1 == passedPairing([m EXCEPT !.pairSetup.displayName = displayName],
                            "finishPairing")
        second(s) ==
            IF ~s.ok THEN failPairing([m1 EXCEPT !.srp = s.srp], s.thrown)
            ELSE awaitPairing(
                     exchangeAuth([m1 EXCEPT !.srp = s.srp], PS_Next,
                                  PairingMessage(<<[tag |-> SeqNo, value |-> <<3>>],
                                                   [tag |-> PublicKey, value |-> s.pubKey],
                                                   [tag |-> Proof, value |-> s.proof]>>),
                                  NoTimeout),
                     "M3", "m4")
        first(s) ==
            IF ~s.ok THEN failPairing(m1, s.thrown)
            ELSE second(step2(s.srp, m1.pairSetup.atvPubKey.v, m1.pairSetup.atvSalt.v))
    IN  IF ~m1.pairSetup.atvSalt.has \/ ~m1.pairSetup.atvPubKey.has
        THEN failPairing(m1, AuthenticationError("Pairing not started"))
        ELSE first(step1(m1.srp, pinCode))

\* finishPairing from resp1 to its second exchange
afterSetupM4(m) ==
    LET m1 == passedPairing(m, "M4")
        third(s) ==
            IF ~s.ok THEN failPairing([m1 EXCEPT !.srp = s.srp], s.thrown)
            ELSE awaitPairing(
                     exchangeAuth([m1 EXCEPT !.srp = s.srp], PS_Next,
                                  PairingMessage(<<[tag |-> SeqNo, value |-> <<5>>],
                                                   [tag |-> EncryptedData,
                                                    value |-> s.out]>>),
                                  NoTimeout),
                     "M5", "m6")
        parsed(pairingData1) ==
            IF ~pairingData1.ok THEN failPairing(m1, pairingData1.thrown)
            ELSE IF ~TlvHas(pairingData1.map, Proof)
            THEN failPairing(m1, AuthenticationError("Missing proof from device"))
            ELSE third(step3(m1.srp, m1.pairSetup.displayName))
    IN  parsed(getPairingDataOrThrow(m.calls[m.pairSetup.call].val))

\* finishPairing from resp2 on: step4 and the credentials
afterSetupM6(m) ==
    LET m1 == passedPairing(m, "M6")
        fourth(s) ==
            IF ~s.ok THEN failPairing(m1, s.thrown)
            ELSE [m1 EXCEPT !.pairSetup.pc = "done",
                            !.pairSetup.credentials = s.credentials]
        parsed(pairingData2) ==
            IF ~pairingData2.ok THEN failPairing(m1, pairingData2.thrown)
            ELSE IF ~TlvHas(pairingData2.map, EncryptedData)
            THEN failPairing(m1, AuthenticationError("Missing encrypted data from device"))
            ELSE fourth(step4(m1.srp, TlvGet(pairingData2.map, EncryptedData)))
    IN  parsed(getPairingDataOrThrow(m.calls[m.pairSetup.call].val))

\* the microtasks of the pairing procedure: it runs on while the call it
\* awaits is settled
RECURSIVE resumePairing(_)
resumePairing(m) ==
    IF m.crashed \/ m.pairSetup.pc \notin {"m2", "m4", "m6"} THEN m
    ELSE IF m.calls[m.pairSetup.call].state = "rejected"
    THEN failPairing(m, m.calls[m.pairSetup.call].err)
    ELSE IF m.calls[m.pairSetup.call].state = "pending" THEN m
    ELSE IF m.pairSetup.pc = "m2" THEN afterSetupM2(m)
    ELSE IF m.pairSetup.pc = "m4" THEN resumePairing(afterSetupM4(m))
    ELSE afterSetupM6(m)

----------------------------------------------------------------------------
(* CompanionAPI *)

\* the identifiers of the commands connect() and disconnect() send, the
\* identifier of a command of the user (FetchAttentionState), and the events
SystemInfo == <<95, 115, 121, 115>>
TouchStart == <<95, 116, 83, 116>>
SessionStart == <<95, 115, 83, 116>>
SessionStop == <<95, 115, 83, 112>>
TouchStop == <<95, 116, 83, 112>>
FetchAttentionState == <<70, 65, 83>>
Interest == <<95, 105, 110, 116>>
Key_regEvents == <<95, 114, 101, 103>>
Key_deregEvents == <<95, 100, 101, 114>>
IMC == <<95, 105, 77, 67>>
ITC == <<95, 105, 84, 67>>

\* a CompanionAPI after construction: no protocol, nothing subscribed, and no
\* connect() or disconnect() running.  `left` and `dereg` record what the
\* last disconnect() found subscribed and what it deregistered
NoApi == [protocol |-> FALSE, subscribedEvents |-> <<>>, pc |-> "none", call |-> 0,
          err |-> NoError, left |-> <<>>, dereg |-> <<>>]

\* sendCommand(identifier, content)
sendCommand(m, identifier) ==
    IF ~m.api.protocol
    THEN [m EXCEPT !.thrown = "Not connected"]
    ELSE exchangeOpack(m, E_OPACK,
                       Obj(<<[k |-> Key_i, v |-> Str(identifier)],
                             [k |-> Key_t, v |-> Num(Request)],
                             [k |-> Key_c, v |-> Obj(<<>>)]>>),
                       NoTimeout)

\* sendEvent(identifier, content), the content being {key: [event]}
sendEvent(m, identifier, key, event) ==
    IF ~m.api.protocol
    THEN [m EXCEPT !.thrown = "Not connected"]
    ELSE sendOpack(m, E_OPACK,
                   Obj(<<[k |-> Key_i, v |-> Str(identifier)],
                         [k |-> Key_t, v |-> Num(Event)],
                         [k |-> Key_c,
                          v |-> Obj(<<[k |-> key, v |-> Arr(<<Str(event)>>)]>>)]>>))

includes(list, event) == \E i \in 1..Len(list) : list[i] = event

\* Array.prototype.indexOf, counting from 1; 0 for -1
indexOf(list, event) ==
    IF includes(list, event)
    THEN CHOOSE i \in 1..Len(list) : list[i] = event /\ \A j \in 1..(i - 1) : list[j] # event
    ELSE 0

\* Array.prototype.splice(index, 1)
splice(list, index) == SubSeq(list, 1, index - 1) \o SubSeq(list, index + 1, Len(list))

\* subscribeEvent(event)
subscribeEvent(m, event) ==
    IF includes(m.api.subscribedEvents, event) THEN m
    ELSE LET pushed(s) == IF s.thrown # "" THEN s
                          ELSE [s EXCEPT !.api.subscribedEvents = Append(@, event)]
         IN  pushed(sendEvent(m, Interest, Key_regEvents, event))

\* unsubscribeEvent(event)
unsubscribeEvent(m, event) ==
    LET index == indexOf(m.api.subscribedEvents, event)
        spliced(s) == IF s.thrown # "" THEN s
                      ELSE [s EXCEPT !.api.subscribedEvents = splice(@, index),
                                     !.api.dereg = Append(@, event)]
    IN  IF index = 0 THEN m
        ELSE spliced(sendEvent(m, Interest, Key_deregEvents, event))

\* `for (const event of this.subscribedEvents) await this.unsubscribeEvent(event)`
\* from the array iterator's position i on: the iterator reads the array as
\* it is when it gets there
RECURSIVE unsubscribeFrom(_, _)
unsubscribeFrom(m, i) ==
    IF i >= Len(m.api.subscribedEvents) THEN m
    ELSE LET next(s) == IF s.thrown # "" THEN s ELSE unsubscribeFrom(s, i + 1)
         IN  next(unsubscribeEvent(m, m.api.subscribedEvents[i + 1]))

\* the promise of connect() is rejected
failConnect(m, err) == [m EXCEPT !.api.pc = "failed", !.api.err = err, !.thrown = ""]

\* `await this.sendCommand(...)` of connect() or disconnect(): the call is
\* suspended on the exchange just made
awaitCommand(m, identifier, pc) ==
    LET sent(s) == [s EXCEPT !.api.pc = pc, !.api.call = Len(s.calls)]
    IN  sent(sendCommand(m, identifier))

\* the catch and finally of disconnect()
finishDisconnect(m) ==
    [stop([m EXCEPT !.thrown = ""]) EXCEPT !.api.protocol = FALSE,
                                          !.api.pc = "disconnected"]

\* connect() after sessionStart(): `await this.subscribeEvent('_iMC')`
afterSessionStart(m) ==
    LET subscribed(s) ==
            IF s.thrown # "" THEN failConnect(s, Err("Error", s.thrown))
            ELSE [s EXCEPT !.api.pc = "connected"]
    IN  subscribed(subscribeEvent(m, IMC))

\* the microtasks after a callback: connect() or disconnect() runs on while
\* what it awaits is settled
RECURSIVE resumeApi(_)
resumeApi(m) ==
    IF m.crashed THEN m
    ELSE IF m.api.pc = "start"
    THEN IF m.task.pc = "failed" THEN failConnect(m, m.task.err)
         ELSE IF m.task.pc = "done" THEN resumeApi(awaitCommand(m, SystemInfo, "systemInfo"))
         ELSE m
    ELSE IF m.api.pc \in {"systemInfo", "touchStart", "sessionStart"}
    THEN IF m.calls[m.api.call].state = "pending" THEN m
         ELSE IF m.calls[m.api.call].state = "rejected"
         THEN failConnect(m, m.calls[m.api.call].err)
         ELSE IF m.api.pc = "systemInfo" THEN resumeApi(awaitCommand(m, TouchStart, "touchStart"))
         ELSE IF m.api.pc = "touchStart" THEN resumeApi(awaitCommand(m, SessionStart, "sessionStart"))
         ELSE afterSessionStart(m)
    ELSE IF m.api.pc \in {"sessionStop", "touchStop"}
    THEN IF m.calls[m.api.call].state = "pending" THEN m
         ELSE IF m.calls[m.api.call].state = "rejected" THEN finishDisconnect(m)
         ELSE IF m.api.pc = "sessionStop" THEN resumeApi(awaitCommand(m, TouchStop, "touchStop"))
         ELSE finishDisconnect(m)
    ELSE m

\* new CompanionConnection(host, port), new SRPAuthHandler() and
\* new CompanionProtocol(connection, srp), the counter starting at x: nothing
\* is written or emitted yet, and no request has been made
newProtocol(m, x) ==
    [m EXCEPT !.socket = 0, !.buffer = <<>>, !.chacha = NoCipher, !.attached = TRUE,
              !.written = <<>>, !.frames = <<>>, !.connErrors = <<>>,
              !.connErrListener = FALSE, !.xid = x, !.queues = <<>>,
              !.isStarted = FALSE, !.calls = <<>>, !.protoErrors = <<>>,
              !.protoErrListener = FALSE, !.srp = NoKeys,
              !.task = NoTask, !.api.protocol = TRUE]

\* connect() up to its first await, for a protocol whose counter starts at x
apiConnect(m, credentials, x) ==
    IF m.api.protocol THEN m
    ELSE [start(newProtocol(m, x), credentials)
             EXCEPT !.api.pc = "start", !.api.call = 0, !.api.err = NoError,
                    !.api.left = <<>>, !.api.dereg = <<>>]

\* disconnect() up to its first await
apiDisconnect(m) ==
    IF ~m.api.protocol THEN m
    ELSE LET stopping(s) ==
                 IF s.thrown # "" THEN finishDisconnect(s)
                 ELSE awaitCommand(s, SessionStop, "sessionStop")
         IN  stopping(unsubscribeFrom([m EXCEPT !.api.left = m.api.subscribedEvents,
                                                !.api.dereg = <<>>], 0))

\* no connect() or disconnect() of the API is between two of its awaits
ApiSettled == api.pc \in {"none", "connected", "failed", "disconnected"}

\* connect() or disconnect() has been called: its effects up to its first
\* await that is not settled yet
CommitApi(m) == Assign(resumeApi(resumePairing(resume(m))))

\* a callback has run: its effects, and those of the microtasks after it
Commit(m) ==
    IF ApiSettled THEN Assign(resumePairing(resume(m))) ELSE CommitApi(m)

----------------------------------------------------------------------------
(* CompanionConnection: the reader *)

\* one frame sliced off the buffer: decrypt if keyed, emit 'frame', catch.
\* The 'frame' listener is the protocol's handleFrame when a protocol is
\* attached; on a connection used alone it is a recorder of the frames.
deliverFrame(m, header, payload) ==
    LET keyed == m.chacha.set /\ Len(payload) > 0
        \* an exception of a 'frame' listener lands in handleData's catch
        caught(m3) ==
            IF m3.thrown # ""
            THEN emitConnError([m3 EXCEPT !.thrown = ""], m3.thrown)
            ELSE m3
        opened(d) ==
            IF ~d.ok
            THEN emitConnError([m EXCEPT !.chacha = d.c], "decrypt failed")
            ELSE IF m.attached
            THEN caught(handleFrame([m EXCEPT !.chacha = d.c,
                                              !.handed = Append(@, [type |-> header[1],
                                                                    payload |-> d.out,
                                                                    opened |-> keyed])],
                                    header[1], d.out))
            ELSE [m EXCEPT !.chacha = d.c,
                           !.frames = Append(@, [type |-> header[1], payload |-> d.out,
                                                 opened |-> keyed, ctr |-> d.ctr])]
    IN  opened(IF keyed THEN decrypt(m.chacha, payload, NonceUndefined, header)
               ELSE [c |-> m.chacha, ok |-> TRUE, out |-> payload, ctr |-> -1])

\* the while loop of handleData
RECURSIVE handleLoop(_)
handleLoop(m) ==
    IF Len(m.buffer) < HEADER_LENGTH
    THEN m
    ELSE LET payloadLength == HEADER_LENGTH + readUIntBE3(m.buffer)
             next(m2) == IF m2.thrown # "" THEN m2 ELSE handleLoop(m2)
         IN  IF Len(m.buffer) < payloadLength
             THEN m
             ELSE next(deliverFrame([m EXCEPT !.buffer = subarray(@, payloadLength, Len(@))],
                                    subarray(m.buffer, 0, HEADER_LENGTH),
                                    subarray(m.buffer, HEADER_LENGTH, payloadLength)))

\* a reader that forgets the bytes it held back
handleDataForgetful(m, data) == handleLoop([m EXCEPT !.buffer = data])

\* handleData(data)
handleData(m, data) == handleLoop([m EXCEPT !.buffer = @ \o data])

----------------------------------------------------------------------------
(* The device and the network *)

\* the frame types and payloads the model draws from
FrameTypes == {1, 8}
PayloadAlphabet == {9}
Payloads == UNION {[1..k -> PayloadAlphabet] : k \in 0..MaxPayload}
ShortPayloads == {p \in Payloads : Len(p) <= 1}
OutputKey == <<11>>
InputKey == <<12>>

DataNonce(counter) == buildNonce([nonceLength |-> NONCE_LENGTH], counter)

\* a frame as an honest device writes it: sealed under its send key once keyed
deviceFrame(keys, counter, frameType, data) ==
    LET sealed == keys.set /\ Len(data) > 0
        header == frameHeader(frameType, IF sealed THEN Len(data) + AUTH_TAG_LENGTH
                                         ELSE Len(data))
    IN  IF sealed
        THEN header \o aeadSeal(keys.outKey, DataNonce(counter), header, data)
        ELSE header \o data

\* the same frame with its last byte (of the tag) altered
corruptFrame(bytes) ==
    [bytes EXCEPT ![Len(bytes)] = (@ + 1) % 256]

Op(name) == [op |-> name]

\* the device's side of Pair-Verify: how far it is (0, 1 after M2, 2 after
\* M4) and its shared secret
\* `setup` is its side of Pair-Setup: how far it is (1 after M2, 2 after M4,
\* 3 after M6) and its session key
NoPairVerify == [stage |-> 0, shared |-> <<>>, setup |-> [stage |-> 0, K |-> <<>>]]

\* the paired device's long-term key and identifier, the client's, and those
\* of another device
DeviceLtsk == <<21>>
OtherLtsk == <<22>>
ClientLtsk == <<31>>
AtvId == <<65>>
OtherId == <<66>>
ClientId == <<67>>
DeviceEphemeral == <<9>>
DeviceSalt == <<17>>
DevicePin == <<49, 50>>
OtherPin == <<49, 51>>
OtherEphemeral == <<13>>

Paired == [ltpk |-> ed25519GetPublicKey(DeviceLtsk), ltsk |-> ClientLtsk,
           atvId |-> AtvId, clientId |-> ClientId]

\* the credentials of the pairing, and the same with another device's ltpk
CredentialsSets == <<Paired, [Paired EXCEPT !.ltpk = ed25519GetPublicKey(OtherLtsk)]>>

\* the private keys generateX25519KeyPair() may return
PrivateKeys == {<<3>>, <<7>>}

\* how the device's M2 may differ from the honest one: another identifier, a
\* damaged signature, a public key other than the one it computed with
\* ("ephemeral"), a signature over a public key other than the one it
\* announces and computes with ("signedEphemeral")
M2Variants == {"honest", "identifier", "signature", "ephemeral", "signedEphemeral"}

\* the SeqNo of the device's message n: its own, or (variant "seqNo") that of
\* the message after it
SeqNoOf(variant, n) == IF variant = "seqNo" THEN <<n + 2>> ELSE <<n>>

\* the public key of the client's M1, as the device reads it from the frame
publicKeyOfM1(payload) ==
    TlvGet(readTlv(Get(unpack(payload).value, Key_pd).s), PublicKey)

\* the device's M2 to a client with public key clientPub
deviceM2(clientPub, variant) ==
    LET private == IF variant = "signedEphemeral" THEN OtherEphemeral ELSE DeviceEphemeral
        announced == IF variant = "ephemeral" THEN x25519GetPublicKey(OtherEphemeral)
                     ELSE x25519GetPublicKey(private)
        shared == x25519SharedSecret(private, clientPub)
        sessionKey == hkdfExpand(PairVerifyEncryptSalt, PairVerifyEncryptInfo, shared)
        identifier == IF variant = "identifier" THEN OtherId ELSE AtvId
        signed == ed25519Sign(DeviceLtsk, x25519GetPublicKey(DeviceEphemeral)
                                          \o identifier \o clientPub)
        signature == IF variant = "signature" THEN corruptFrame(signed) ELSE signed
        tlv == writeTlv(<<[tag |-> Identifier, value |-> identifier],
                          [tag |-> Signature, value |-> signature]>>)
        encrypted == encrypt(NewCipher(sessionKey, sessionKey, 8), tlv,
                             NonceString(PVMsg02), <<>>).out
    IN  [shared |-> shared,
         msg |-> Obj(<<[k |-> Key_pd,
                        v |-> Buf(writeTlv(<<[tag |-> SeqNo, value |-> SeqNoOf(variant, 2)],
                                             [tag |-> PublicKey, value |-> announced],
                                             [tag |-> EncryptedData,
                                              value |-> encrypted]>>))]>>)]

\* the device's M4, and the keys it installs with it
deviceM4 == Obj(<<[k |-> Key_pd, v |-> Buf(writeTlv(<<[tag |-> SeqNo, value |-> <<4>>]>>))]>>)

\* the device's refusal in place of the message with sequence number seqNo
deviceError(seqNo) ==
    Obj(<<[k |-> Key_pd, v |-> Buf(writeTlv(<<[tag |-> SeqNo, value |-> <<seqNo>>],
                                              [tag |-> Error, value |-> <<2>>]>>))]>>)

deviceKeys(shared) ==
    NewCipher(hkdfExpand(SRP_SALT, SRP_INPUT_INFO, shared),
              hkdfExpand(SRP_SALT, SRP_OUTPUT_INFO, shared), NONCE_LENGTH)

Quiet == wire = <<>> /\ buffer = <<>>

Live == ~crashed /\ socket # 0 /\ sockState[socket] = "open"

----------------------------------------------------------------------------
(* Actions of the connection *)

Connect ==
    /\ ~crashed /\ socket = 0 /\ Len(sockState) < MaxConnects
    /\ Commit(connect(Client))
    /\ wire' = <<>> /\ devKeys' = NoCipher /\ devOut' = 0
    /\ last' = Op("connect")
    /\ UNCHANGED <<devFrames, devHonest, devPV, cipher>>

SocketConnect ==
    /\ ~crashed /\ socket # 0 /\ sockState[socket] = "connecting"
    /\ Commit([Client EXCEPT !.sockState[socket] = "open"])
    /\ last' = Op("connected")
    /\ UNCHANGED <<devVars, cipher>>

\* keys are installed once per session, while nothing is in flight; the device
\* keys its side alike
EnableEncryption ==
    /\ Live /\ Quiet /\ ~chacha.set
    /\ Commit(enableEncryption(Client, OutputKey, InputKey))
    /\ devKeys' = NewCipher(InputKey, OutputKey, NONCE_LENGTH)
    /\ devOut' = 0
    /\ last' = Op("enableEncryption")
    /\ UNCHANGED <<wire, devFrames, devHonest, devPV, cipher>>

Send(types, payloads) ==
    /\ ~crashed
    /\ Len(SelectSeq(written, LAMBDA w : w.type \notin AUTH_FRAMES)) < MaxSends
    /\ \E ft \in types, data \in payloads :
          LET done(r) ==
                  /\ Commit(r)
                  /\ last' = [op |-> "send", ft |-> ft, data |-> data,
                               thrown |-> r.thrown, keyed |-> chacha.set,
                               ctr |-> IF chacha.set THEN chacha.outCounter ELSE -1]
          IN  done(send(Client, ft, data))
    /\ UNCHANGED <<devVars, cipher>>

\* the device writes a frame: an honest one, or (keyed) one whose tag is damaged
DeviceWrite(types, payloads, goods) ==
    /\ Live
    /\ Len(devFrames) < MaxDevFrames
    /\ \E ft \in types, data \in payloads, good \in goods :
          LET sealed == devKeys.set /\ Len(data) > 0
              bytes == deviceFrame(devKeys, devOut, ft, data)
          IN  /\ good \/ sealed
              /\ wire' = wire \o (IF good THEN bytes ELSE corruptFrame(bytes))
              /\ devOut' = IF sealed THEN devOut + 1 ELSE devOut
              /\ devFrames' = Append(devFrames, [type |-> ft, payload |-> data,
                                                 sealed |-> sealed, good |-> good,
                                                 bytes |-> bytes])
              /\ devHonest' = (devHonest /\ good)
    /\ last' = Op("deviceWrite")
    /\ UNCHANGED <<connVars, protoVars, devKeys, devPV, cipher>>

\* the socket's 'data' event with the next n bytes in flight: any n when
\* `split`, else all of them
SocketData(split) ==
    /\ Live
    /\ \E n \in 1..Len(wire) :
          /\ split \/ n = Len(wire)
          /\ LET done(r) ==
                     /\ Commit(r)
                     /\ last' = [op |-> "data", thrown |-> r.thrown, held |-> Len(buffer)]
             IN  done(handleData(Client, SubSeq(wire, 1, n)))
          /\ wire' = SubSeq(wire, n + 1, Len(wire))
    /\ UNCHANGED <<devKeys, devOut, devFrames, devHonest, devPV, cipher>>

\* connection.on('error', ...)
OnError ==
    /\ ~crashed /\ ~connErrListener
    /\ Commit([Client EXCEPT !.connErrListener = TRUE])
    /\ last' = Op("on error")
    /\ UNCHANGED <<devVars, cipher>>

Close ==
    /\ ~crashed /\ socket # 0
    /\ Commit(close(Client))
    /\ last' = Op("close")
    /\ UNCHANGED <<devVars, cipher>>

\* the 'close' event of a socket: after destroy(), or because the peer closed
SocketClose ==
    /\ ~crashed
    /\ \E id \in 1..Len(sockState) :
          /\ sockState[id] \in {"open", "destroyed"}
          /\ Commit(onSocketClose(Client, id))
    /\ last' = Op("socketClose")
    /\ UNCHANGED <<devVars, cipher>>

----------------------------------------------------------------------------
(* Actions of the protocol *)

\* what the callers send: a command as CompanionAPI.sendCommand builds it, and
\* pairing data
Command == Obj(<<[k |-> Key_i, v |-> Str(<<105>>)], [k |-> Key_t, v |-> Num(Request)],
                 [k |-> Key_c, v |-> Obj(<<>>)]>>)
AuthData == Obj(<<[k |-> Key_pd, v |-> Buf(<<6, 1, 1>>)]>>)

\* what the device sends in OPACK frames: for each transaction id k a plain
\* response, a response with _em and an event that carries _x
ResponseTo(k) == Obj(<<[k |-> Key_t, v |-> Num(Response)], [k |-> Key_x, v |-> Num(k)]>>)
ResponseError(k) ==
    Obj(<<[k |-> Key_em, v |-> Str(<<101>>)], [k |-> Key_t, v |-> Num(Response)],
          [k |-> Key_x, v |-> Num(k)]>>)
EventWith(k) ==
    Obj(<<[k |-> Key_i, v |-> Str(<<101>>)], [k |-> Key_t, v |-> Num(Event)],
          [k |-> Key_x, v |-> Num(k)], [k |-> Key_c, v |-> Obj(<<>>)]>>)

\* the transaction ids allocated so far and the next one
KnownXids == [c \in 1..Len(calls) |-> calls[c].id] \o <<xid>>

RECURSIVE OpackMessages(_)
RECURSIVE Replies(_)
Replies(ks) ==
    IF ks = <<>> THEN <<>>
    ELSE <<ResponseTo(Head(ks)), ResponseError(Head(ks))>> \o Replies(Tail(ks))

OpackMessages(ks) ==
    IF ks = <<>> THEN <<>>
    ELSE <<ResponseTo(Head(ks)), ResponseError(Head(ks)), EventWith(Head(ks))>>
         \o OpackMessages(Tail(ks))

\* the device end of a socket start() has made: a session of its own, with
\* no keys and nothing written; a start() that throws makes no socket
NewPeer(r) ==
    IF r.thrown = ""
    THEN wire' = <<>> /\ devKeys' = NoCipher /\ devOut' = 0 /\ devPV' = NoPairVerify
    ELSE UNCHANGED <<wire, devKeys, devOut, devPV>>

\* start()
Start ==
    /\ ~crashed /\ Len(sockState) < MaxConnects
    /\ LET done(r) ==
               /\ Commit(r)
               /\ last' = [op |-> "start", thrown |-> r.thrown]
               /\ NewPeer(r)
       IN  done(start(Client, NoCredentials))
    /\ UNCHANGED <<devFrames, devHonest, cipher>>

ExchangeOpack(timeouts) ==
    /\ ~crashed /\ Len(calls) < MaxCalls
    /\ \E timeout \in timeouts :
          /\ Commit(exchangeOpack(Client, E_OPACK, Command, timeout))
          /\ last' = [op |-> "exchangeOpack", timeout |-> timeout]
    /\ UNCHANGED <<devVars, cipher>>

ExchangeAuth(types, timeouts) ==
    /\ ~crashed /\ Len(calls) < MaxCalls
    /\ \E frameType \in types, timeout \in timeouts :
          /\ Commit(exchangeAuth(Client, frameType, AuthData, timeout))
          /\ last' = [op |-> "exchangeAuth", ft |-> frameType, timeout |-> timeout]
    /\ UNCHANGED <<devVars, cipher>>

\* the device writes one frame and the socket delivers it as one chunk
Inbound(types, messages) ==
    /\ Live /\ Quiet /\ devOut < MaxDevFrames
    /\ \E frameType \in types, i \in 1..Len(messages) :
          LET done(r) ==
                  /\ Commit(r)
                  /\ last' = [op |-> "frame", ft |-> frameType, msg |-> messages[i],
                               thrown |-> r.thrown, emitted |-> r.emitted,
                               handed |-> r.handed]
              arrived(data) ==
                  /\ done(handleData(Client, deviceFrame(devKeys, devOut, frameType, data)))
                  /\ devOut' = IF devKeys.set /\ Len(data) > 0 THEN devOut + 1 ELSE devOut
          IN  arrived(pack(messages[i]))
    /\ UNCHANGED <<wire, devKeys, devFrames, devHonest, devPV, cipher>>

InboundOpack == Inbound({E_OPACK}, OpackMessages(KnownXids))

InboundAuth(types) == Inbound(types, <<AuthData>>)

InboundEvent == Inbound({E_OPACK}, <<EventWith(0)>>)

\* new CompanionProtocol(connection): xid is random
Xids == {6, 255}

\* the transaction ids handed out so far
Allocated == xid - (CHOOSE x0 \in Xids : xid - x0 \in 0..(2 * (MaxCalls + MaxSends)))

\* sendOpack(frameType, data) with a message that has no _x, or (`own`) one
\* that brings the _x of an earlier request
SendOpack(owns) ==
    /\ ~crashed /\ Allocated < MaxCalls + MaxSends /\ Len(written) < MaxCalls + MaxSends
    /\ \E own \in owns :
          /\ own => Len(calls) > 0
          /\ LET data == IF own THEN Obj(SetKey(Command.e, Key_x, Num(calls[1].id)))
                         ELSE Command
                 done(r) ==
                     /\ Commit(r)
                     /\ last' = [op |-> "sendOpack", msg |-> data, thrown |-> r.thrown]
             IN  done(sendOpack(Client, E_OPACK, data))
    /\ UNCHANGED <<devVars, cipher>>

\* start(credentials); the key pair initialize() will generate is drawn here
StartWith(credentials, keys, sessions) ==
    /\ ~crashed /\ Len(sockState) < sessions
    /\ \E i \in 1..Len(credentials), key \in keys :
          LET done(r) ==
                  /\ Commit(r)
                  /\ last' = [op |-> "start", thrown |-> r.thrown]
                  /\ NewPeer(r)
          IN  done(start([Client EXCEPT !.srp.entropy = key], credentials[i]))
    /\ UNCHANGED <<devFrames, devHonest, cipher>>

\* the device has read this frame of the client: it was written to the
\* socket now open, in the clear, as a device that holds no keys reads it
Received(w, frameType) == w.sock = socket /\ w.type = frameType /\ ~w.sealed

\* the device answers the client's M1 with its M2, delivered as one chunk
DeviceM2(variants) ==
    /\ Live /\ Quiet /\ devPV.stage = 0
    /\ \E i \in 1..Len(written), variant \in variants :
          /\ Received(written[i], PV_Start)
          /\ LET done(r) ==
                     /\ Commit(r)
                     /\ last' = [op |-> "m2", variant |-> variant, thrown |-> r.thrown,
                                  handed |-> r.handed]
                 answered(m2) ==
                     /\ done(handleData(Client, deviceFrame(NoCipher, 0, PV_Next,
                                                            pack(m2.msg))))
                     /\ devPV' = [devPV EXCEPT !.stage = 1, !.shared = m2.shared]
             IN  answered(deviceM2(publicKeyOfM1(written[i].plain), variant))
    /\ UNCHANGED <<wire, devKeys, devOut, devFrames, devHonest, cipher>>

\* the device answers the client's M3 with its M4 and keys its side; when
\* `trailing`, its first sealed frame follows in the same chunk
DeviceM4(trailings) ==
    /\ Live /\ Quiet /\ devPV.stage = 1
    /\ \E i \in 1..Len(written), trailing \in trailings :
          /\ Received(written[i], PV_Next)
          /\ LET done(r) ==
                     /\ Commit(r)
                     /\ last' = [op |-> "m4", trailing |-> trailing, thrown |-> r.thrown,
                                  handed |-> r.handed]
                 keyed(keys) ==
                     /\ done(handleData(Client,
                                        deviceFrame(NoCipher, 0, PV_Next, pack(deviceM4))
                                        \o (IF trailing
                                            THEN deviceFrame(keys, 0, E_OPACK,
                                                             pack(EventWith(0)))
                                            ELSE <<>>)))
                     /\ devKeys' = keys
             IN  keyed(deviceKeys(devPV.shared))
          /\ devOut' = IF trailing THEN 1 ELSE 0
    /\ devPV' = [devPV EXCEPT !.stage = 2]
    /\ UNCHANGED <<wire, devFrames, devHonest, cipher>>

\* the device refuses: it answers the client's M1 (stage 0) or M3 (stage 1)
\* with a TLV that carries Error = Authentication, and installs no keys
DeviceError ==
    /\ Live /\ Quiet /\ devPV.stage \in {0, 1}
    /\ \E i \in 1..Len(written) :
          /\ Received(written[i], IF devPV.stage = 0 THEN PV_Start ELSE PV_Next)
          /\ LET done(r) ==
                     /\ Commit(r)
                     /\ last' = [op |-> "deviceError", stage |-> devPV.stage,
                                  thrown |-> r.thrown, handed |-> r.handed]
             IN  done(handleData(Client,
                                 deviceFrame(NoCipher, 0, PV_Next,
                                             pack(deviceError(2 * devPV.stage + 2)))))
    /\ devPV' = [devPV EXCEPT !.stage = 3]
    /\ UNCHANGED <<wire, devKeys, devOut, devFrames, devHonest, cipher>>

\* the pairing data of a message the client wrote, as the device reads it
pairingDataOf(payload) == readTlv(Get(unpack(payload).value, Key_pd).s)

\* the client has written message seqNo of Pair-Setup to the socket now open
ReceivedSetup(w, frameType, seqNo) ==
    /\ Received(w, frameType)
    /\ TlvHas(pairingDataOf(w.plain), SeqNo)
    /\ TlvGet(pairingDataOf(w.plain), SeqNo) = <<seqNo>>

\* the device's SRP verifier v = g^x of its PIN, and its public key
\* B = k v + g^b
deviceVerifier ==
    ModExp(Generator, derivePrivateKey(DeviceSalt, PairSetupUser, DevicePin))
devicePublic ==
    <<((SrpMultiplier * deviceVerifier) + ModExp(Generator, BigInt(DeviceEphemeral)))
      % Modulus>>

\* the device's session key K = H((A v^u)^b) with a client whose public key
\* is A
deviceSessionKey(A) ==
    LET u == Digest(A \o devicePublic)
        S == ModExp((BigInt(A) * ModExp(deviceVerifier, u)) % Modulus,
                    BigInt(DeviceEphemeral))
    IN  <<Digest(<<S>>)>>

\* how a reply of the device may differ from the honest one: it refuses
\* (Error alone, or Error next to the fields of the honest reply), it leaves
\* a field out, it sends no pairing data
SetupM2Variants == {"honest", "error", "errorAndFields", "noSalt", "noPublicKey",
                    "noPairingData"}
SetupM4Variants == {"honest", "error", "errorAndFields", "noProof", "otherProof"}
SetupM6Variants == {"honest", "error", "errorAndFields", "noEncryptedData",
                    "noIdentifier", "noPublicKey", "empty", "damaged"}

\* ErrorCode.BackOff, and the retry delay of a device that asks the client
\* to wait: seconds as an unsigned 16-bit little-endian number
ErrorCodeBackOff == 3
RetryDelay == <<30, 0>>

\* the entries of a refusal
ErrorTlv(variant) ==
    IF variant \in {"error", "errorAndFields"}
    THEN <<[tag |-> Error, value |-> <<2>>]>>
    ELSE IF variant = "backOff"
    THEN <<[tag |-> Error, value |-> <<ErrorCodeBackOff>>],
           [tag |-> BackOff, value |-> RetryDelay]>>
    ELSE <<>>

\* the device's M2 of Pair-Setup
deviceSetupM2(variant) ==
    IF variant = "noPairingData" THEN Obj(<<[k |-> Key_pwTy, v |-> Num(1)]>>)
    ELSE PairingMessage(
             <<[tag |-> SeqNo, value |-> SeqNoOf(variant, 2)]>>
             \o (IF variant \in {"error", "noPublicKey"} THEN <<>>
                 ELSE <<[tag |-> PublicKey, value |-> devicePublic]>>)
             \o (IF variant \in {"error", "noSalt"} THEN <<>>
                 ELSE <<[tag |-> Salt, value |-> DeviceSalt]>>)
             \o ErrorTlv(variant))

\* the device's M4 to the M3 with pairing data m3: an honest device refuses a
\* client proof other than the one of its own session
deviceSetupM4(m3, variant) ==
    LET A == TlvGet(m3, PublicKey)
        K == deviceSessionKey(A)
        expected == <<Digest(DeviceSalt \o A \o devicePublic \o K)>>
        proof == serverProof(A, expected, K)
        refuses == variant = "error"
                   \/ (variant \in {"honest", "seqNo"} /\ TlvGet(m3, Proof) # expected)
    IN  [K |-> K, refused |-> refuses,
         msg |-> PairingMessage(
                     <<[tag |-> SeqNo, value |-> SeqNoOf(variant, 4)]>>
                     \o (IF refuses \/ variant = "noProof" THEN <<>>
                         ELSE <<[tag |-> Proof,
                                 value |-> IF variant = "otherProof"
                                           THEN <<(proof[1] + 1) % 256>> ELSE proof]>>)
                     \o (IF refuses THEN <<[tag |-> Error, value |-> <<2>>]>>
                         ELSE ErrorTlv(variant)))]

\* the device's M6 in a session with key K, to the M5 with pairing data m5:
\* an honest device refuses an M5 that does not open under its session key
deviceSetupM6(K, m5, variant) ==
    LET sessionKey == hkdfExpand(PairSetupEncryptSalt, PairSetupEncryptInfo, K)
        chacha8 == NewCipher(sessionKey, sessionKey, 8)
        opens == decrypt(chacha8, TlvGet(m5, EncryptedData), NonceString(PSMsg05), <<>>).ok
        accessoryX == hkdfExpand(PairSetupControllerSignSalt, PairSetupControllerSignInfo, K)
        publicKey == ed25519GetPublicKey(DeviceLtsk)
        tlv == (IF variant = "noIdentifier" THEN <<>>
                ELSE <<[tag |-> Identifier, value |-> AtvId]>>)
               \o (IF variant = "noPublicKey" THEN <<>>
                   ELSE <<[tag |-> PublicKey, value |-> publicKey]>>)
               \o <<[tag |-> Signature,
                     value |-> ed25519Sign(DeviceLtsk, accessoryX \o AtvId \o publicKey)]>>
        sealed == encrypt(chacha8, IF variant = "empty" THEN <<>> ELSE writeTlv(tlv),
                          NonceString(PSMsg06), <<>>).out
        refuses == variant = "error" \/ (variant \in {"honest", "seqNo"} /\ ~opens)
    IN  [refused |-> refuses,
         msg |-> PairingMessage(
                     <<[tag |-> SeqNo, value |-> SeqNoOf(variant, 6)]>>
                     \o (IF refuses \/ variant = "noEncryptedData" THEN <<>>
                         ELSE <<[tag |-> EncryptedData,
                                 value |-> IF variant = "damaged" THEN corruptFrame(sealed)
                                           ELSE sealed]>>)
                     \o (IF refuses THEN <<[tag |-> Error, value |-> <<2>>]>>
                         ELSE ErrorTlv(variant)))]

\* startPairing(), with the key pairs initialize() will generate
StartPairing(keys) ==
    /\ ~crashed /\ pairSetup.pc = "none"
    /\ \E key \in keys :
          LET done(r) ==
                  /\ Commit(r)
                  /\ last' = [op |-> "startPairing", thrown |-> r.thrown]
          IN  done(startPairing([Client EXCEPT !.srp.signingEntropy = key]))
    /\ UNCHANGED <<devVars, cipher>>

\* finishPairing(pinCode, displayName), called once and not while
\* startPairing is pending
FinishPairing(pins, names) ==
    /\ ~crashed /\ pairSetup.pc \in {"none", "started", "failed"}
    /\ \A i \in 1..Len(pairSetup.trace) : pairSetup.trace[i] # "finishPairing"
    /\ \E pinCode \in pins, displayName \in names :
          LET done(r) ==
                  /\ Commit(r)
                  /\ last' = [op |-> "finishPairing", pin |-> pinCode,
                               thrown |-> r.thrown]
          IN  done(finishPairing(Client, pinCode, displayName))
    /\ UNCHANGED <<devVars, cipher>>

\* the device answers the client's M1 of Pair-Setup, delivered as one chunk
DeviceSetupM2(variants) ==
    /\ Live /\ Quiet /\ devPV.setup.stage = 0
    /\ \E i \in 1..Len(written), variant \in variants :
          /\ ReceivedSetup(written[i], PS_Start, 1)
          /\ LET done(r) ==
                     /\ Commit(r)
                     /\ last' = [op |-> "setupM2", variant |-> variant,
                                  refused |-> variant \in {"error", "errorAndFields", "backOff"},
                                  thrown |-> r.thrown, handed |-> r.handed]
             IN  done(handleData(Client, deviceFrame(NoCipher, 0, PS_Next,
                                                     pack(deviceSetupM2(variant)))))
    /\ devPV' = [devPV EXCEPT !.setup.stage = 1]
    /\ UNCHANGED <<wire, devKeys, devOut, devFrames, devHonest, cipher>>

\* the device answers the client's M3
DeviceSetupM4(variants) ==
    /\ Live /\ Quiet /\ devPV.setup.stage = 1
    /\ \E i \in 1..Len(written), variant \in variants :
          /\ ReceivedSetup(written[i], PS_Next, 3)
          /\ LET done(r) ==
                     /\ Commit(r)
                     /\ last' = [op |-> "setupM4", variant |-> variant,
                                  thrown |-> r.thrown, handed |-> r.handed]
                 answered(m4) ==
                     /\ done(handleData(Client, deviceFrame(NoCipher, 0, PS_Next,
                                                            pack(m4.msg))))
                     /\ devPV' = [devPV EXCEPT !.setup = [stage |-> 2, K |-> m4.K]]
             IN  answered(deviceSetupM4(pairingDataOf(written[i].plain), variant))
    /\ UNCHANGED <<wire, devKeys, devOut, devFrames, devHonest, cipher>>

\* the device answers the client's M5
DeviceSetupM6(variants) ==
    /\ Live /\ Quiet /\ devPV.setup.stage = 2
    /\ \E i \in 1..Len(written), variant \in variants :
          /\ ReceivedSetup(written[i], PS_Next, 5)
          /\ LET done(r) ==
                     /\ Commit(r)
                     /\ last' = [op |-> "setupM6", variant |-> variant,
                                  thrown |-> r.thrown, handed |-> r.handed]
                 answered(m6) ==
                     done(handleData(Client, deviceFrame(NoCipher, 0, PS_Next,
                                                         pack(m6.msg))))
             IN  answered(deviceSetupM6(devPV.setup.K, pairingDataOf(written[i].plain),
                                        variant))
    /\ devPV' = [devPV EXCEPT !.setup.stage = 3]
    /\ UNCHANGED <<wire, devKeys, devOut, devFrames, devHonest, cipher>>

\* the timer of call c expires
TimerFireOf(c) ==
    /\ ~crashed
    /\ c <= Len(calls) /\ calls[c].timer = "armed"
    /\ Commit(timerFired(Client, c))
    /\ last' = [op |-> "timer", call |-> c]
    /\ UNCHANGED <<devVars, cipher>>

TimerFire == \E c \in 1..Len(calls) : TimerFireOf(c)

\* stop()
Stop ==
    /\ ~crashed
    /\ Commit(stop(Client))
    /\ last' = Op("stop")
    /\ UNCHANGED <<devVars, cipher>>

----------------------------------------------------------------------------
(* A Chacha20Cipher used directly *)

Nonces == <<NonceUndefined, NonceString(<<80, 86, 45, 77, 115, 103, 48, 50>>),
            NonceBuffer(Zeros(NONCE_LENGTH))>>

\* new Chacha20Cipher(key, key), with the default nonce length
CipherNew ==
    /\ ~cipher.set
    /\ cipher' = NewCipher(OutputKey, OutputKey, 8)
    /\ last' = Op("newCipher")
    /\ UNCHANGED <<connVars, protoVars, devVars>>

CipherBusy == cipher.set /\ cipher.outCounter + cipher.inCounter < MaxCipherOps

CipherEncrypt(payloads) ==
    /\ CipherBusy
    /\ \E data \in payloads, i \in 1..Len(Nonces) :
          LET r == encrypt(cipher, data, Nonces[i], <<>>)
          IN  /\ cipher' = r.c
              /\ last' = [op |-> "encrypt", nonce |-> Nonces[i].t, ok |-> r.ok]
    /\ UNCHANGED <<connVars, protoVars, devVars>>

\* decrypt of what the same cipher would seal (both keys equal, as in the unit
\* tests), or of that with a damaged tag
CipherDecrypt(payloads) ==
    /\ CipherBusy
    /\ \E data \in payloads, i \in 1..Len(Nonces), good \in BOOLEAN :
          LET nb == IF Nonces[i].t = "undefined" THEN buildNonce(cipher, cipher.inCounter)
                    ELSE padNonce(Nonces[i].v)
              ct == aeadSeal(cipher.inKey, nb, <<>>, data)
              r == decrypt(cipher, IF good THEN ct ELSE corruptFrame(ct), Nonces[i], <<>>)
          IN  /\ cipher' = r.c
              /\ last' = [op |-> "decrypt", nonce |-> Nonces[i].t, ok |-> r.ok,
                           good |-> good, same |-> (r.out = data)]
    /\ UNCHANGED <<connVars, protoVars, devVars>>

----------------------------------------------------------------------------
(* Specifications *)

InitConn ==
    /\ socket = 0 /\ sockState = <<>> /\ buffer = <<>> /\ chacha = NoCipher
    /\ attached = FALSE
    /\ xid = 0 /\ queues = <<>> /\ isStarted = FALSE /\ calls = <<>>
    /\ protoErrors = <<>> /\ protoErrListener = FALSE
    /\ srp = NoKeys /\ task = NoTask /\ pairSetup = NoPairSetup /\ api = NoApi
    /\ written = <<>> /\ frames = <<>> /\ connErrors = <<>>
    /\ connErrListener = FALSE
    /\ crashed = FALSE
    /\ wire = <<>> /\ devKeys = NoCipher /\ devOut = 0 /\ devFrames = <<>>
    /\ devHonest = TRUE /\ devPV = NoPairVerify
    /\ cipher = NoCipher
    /\ last = Op("init")

InitProto ==
    /\ socket = 0 /\ sockState = <<>> /\ buffer = <<>> /\ chacha = NoCipher
    /\ attached = TRUE
    /\ xid \in Xids /\ queues = <<>> /\ isStarted = FALSE /\ calls = <<>>
    /\ protoErrors = <<>> /\ protoErrListener = FALSE
    /\ srp = NoKeys /\ task = NoTask /\ pairSetup = NoPairSetup /\ api = NoApi
    /\ written = <<>> /\ frames = <<>> /\ connErrors = <<>>
    /\ connErrListener = FALSE
    /\ crashed = FALSE
    /\ wire = <<>> /\ devKeys = NoCipher /\ devOut = 0 /\ devFrames = <<>>
    /\ devHonest = TRUE /\ devPV = NoPairVerify
    /\ cipher = NoCipher
    /\ last = Op("init")

\* the writer of the framed transport
NextSend ==
    \/ Connect
    \/ SocketConnect
    \/ EnableEncryption
    \/ Send(FrameTypes, Payloads)
    \/ Close
    \/ SocketClose

SpecSend == InitConn /\ [][NextSend]_vars

\* the reader of the framed transport, fed by a device over a socket that
\* delivers the byte stream in chunks of any size
NextRecv ==
    \/ Connect
    \/ SocketConnect
    \/ EnableEncryption
    \/ DeviceWrite(FrameTypes, Payloads, {TRUE})
    \/ SocketData(TRUE)

SpecRecv == InitConn /\ [][NextRecv]_vars

\* both directions of a keyed connection, whole frames per chunk, and a cipher
\* used directly
NextNonce ==
    \/ Connect
    \/ SocketConnect
    \/ EnableEncryption
    \/ Send({8}, ShortPayloads)
    \/ DeviceWrite({8}, ShortPayloads, {TRUE})
    \/ SocketData(FALSE)
    \/ CipherNew
    \/ CipherEncrypt(ShortPayloads)
    \/ CipherDecrypt(ShortPayloads)

SpecNonce == InitConn /\ [][NextNonce]_vars

\* OPACK exchanges only: requests, the device's frames, timers
NextOpack ==
    \/ Start
    \/ SocketConnect
    \/ ExchangeOpack({NoTimeout})
    \/ InboundOpack
    \/ TimerFire

SpecOpack == InitProto /\ [][NextOpack]_vars

\* the multiplexer: auth and OPACK exchanges, the device's frames, timers,
\* stop() and the peer closing the socket
NextMux ==
    \/ Start
    \/ SocketConnect
    \/ ExchangeOpack({NoTimeout, 100})
    \/ ExchangeAuth({PV_Start, PV_Next}, {NoTimeout})
    \/ InboundOpack
    \/ InboundAuth({PV_Next})
    \/ TimerFire
    \/ Stop
    \/ SocketClose

SpecMux == InitProto /\ [][NextMux]_vars

\* start(credentials): Pair-Verify against the device, then the data channel
NextPV ==
    \/ StartWith(CredentialsSets, PrivateKeys, MaxConnects)
    \/ SocketConnect
    \/ DeviceM2(M2Variants)
    \/ DeviceM4(BOOLEAN)
    \/ InboundEvent
    \/ Send({E_OPACK}, ShortPayloads)
    \/ TimerFire
    \/ Stop

SpecPV == InitProto /\ [][NextPV]_vars

\* start(credentials), stop() and start(credentials) again on the same
\* protocol and connection, the device answering honestly each time
NextSessions ==
    \/ StartWith(<<Paired>>, PrivateKeys, MaxSessions)
    \/ SocketConnect
    \/ DeviceM2({"honest"})
    \/ DeviceM4({FALSE})
    \/ TimerFire
    \/ Stop

SpecSessions == InitProto /\ [][NextSessions]_vars

\* the reader of a keyed connection whose listener takes the 'error' events,
\* fed frames of which some were damaged on their way
NextTamper ==
    \/ Connect
    \/ SocketConnect
    \/ OnError
    \/ EnableEncryption
    \/ DeviceWrite({8}, ShortPayloads, BOOLEAN)
    \/ SocketData(FALSE)

SpecTamper == InitConn /\ [][NextTamper]_vars

\* auth exchanges of both procedures, and an OPACK request beside them, with
\* auth frames of every type arriving
NextAuth ==
    \/ Start
    \/ SocketConnect
    \/ ExchangeAuth(AUTH_FRAMES, {NoTimeout})
    \/ ExchangeOpack({NoTimeout})
    \/ InboundAuth(AUTH_FRAMES)
    \/ TimerFire

SpecAuth == InitProto /\ [][NextAuth]_vars

\* the allocation of transaction ids: requests, their timeouts, and messages
\* sent without waiting, on a protocol that is connected or not
NextXid ==
    \/ Start
    \/ SocketConnect
    \/ ExchangeOpack({NoTimeout})
    \/ SendOpack(BOOLEAN)
    \/ TimerFire

SpecXid == InitProto /\ [][NextXid]_vars

\* start(credentials) against a device that may refuse at either step
NextRefusal ==
    \/ StartWith(<<Paired>>, PrivateKeys, MaxConnects)
    \/ SocketConnect
    \/ DeviceM2({"honest"})
    \/ DeviceM4({FALSE})
    \/ DeviceError
    \/ Send({E_OPACK}, ShortPayloads)
    \/ TimerFire
    \/ Stop

SpecRefusal == InitProto /\ [][NextRefusal]_vars

\* Pair-Setup against a device that may refuse or leave fields out at every
\* step; the user types the PIN the device shows, or another
NextSetup ==
    \/ Start
    \/ SocketConnect
    \/ StartPairing(SigningKeys)
    \/ FinishPairing({DevicePin, OtherPin}, {<<>>, <<116, 118>>})
    \/ DeviceSetupM2(SetupM2Variants)
    \/ DeviceSetupM4(SetupM4Variants)
    \/ DeviceSetupM6(SetupM6Variants)
    \/ TimerFire
    \/ Stop

SpecSetup == InitProto /\ [][NextSetup]_vars

\* stop() with requests pending, and start() after it
NextStop ==
    \/ StartWith(<<NoCredentials>>, {<<>>}, MaxSessions)
    \/ SocketConnect
    \/ ExchangeOpack({NoTimeout})
    \/ ExchangeAuth({PV_Next}, {NoTimeout})
    \/ TimerFire
    \/ Stop

SpecStop == InitProto /\ [][NextStop]_vars

\* every variable of the client and the device as after construction; `last`
\* is left to the specification
Idle ==
    /\ socket = 0 /\ sockState = <<>> /\ buffer = <<>> /\ chacha = NoCipher
    /\ attached = FALSE
    /\ xid = 0 /\ queues = <<>> /\ isStarted = FALSE /\ calls = <<>>
    /\ protoErrors = <<>> /\ protoErrListener = FALSE
    /\ srp = NoKeys /\ task = NoTask /\ pairSetup = NoPairSetup /\ api = NoApi
    /\ written = <<>> /\ frames = <<>> /\ connErrors = <<>>
    /\ connErrListener = FALSE
    /\ crashed = FALSE
    /\ wire = <<>> /\ devKeys = NoCipher /\ devOut = 0 /\ devFrames = <<>>
    /\ devHonest = TRUE /\ devPV = NoPairVerify
    /\ cipher = NoCipher

\* the values given to pack: the leaves, the arrays and maps nested in other
\* values, arrays of up to MaxItems of them, maps of two entries, and arrays
\* and maps that need the terminator
Leaves ==
    {Null, Bool(TRUE), Num(7), Num(300), SizedInt(7, 1),
     Float(<<0, 0, 0, 0, 0, 0, 248, 63>>), Str(<<>>), Str(<<97, 98>>), Buf(<<>>),
     Buf(<<1, 2>>)}
Nested ==
    {Arr(<<>>), Arr(<<Num(1), Num(2)>>), Arr(<<Str(<<97, 98>>)>>),
     Obj(<<[k |-> <<107>>, v |-> Str(<<97, 98>>)]>>)}
Items == Leaves \cup Nested
Repeated(v, n) == [i \in 1..n |-> v]
Values ==
    Items
    \cup {Arr(s) : s \in UNION {[1..n -> Items] : n \in 1..MaxItems}}
    \cup {Obj(<<[k |-> <<107>>, v |-> v1], [k |-> <<108>>, v |-> v2]>>) :
             v1 \in Items, v2 \in Items}
    \cup {Arr(Repeated(v, n)) : v \in {Num(1), Str(<<97, 98>>)}, n \in {15, 16}}
    \cup {Obj([i \in 1..15 |-> [k |-> <<96 + i>>, v |-> Num(i)]])}

\* the bytes given to unpack directly: every first byte, alone and followed
\* by sixteen bytes
Raws == {<<tag>> \o tail : tag \in Byte, tail \in {<<>>, Repeated(1, 16)}}

\* pack(value)
Pack ==
    /\ last.op = "value"
    /\ LET done(r) ==
               last' = [op |-> "pack", value |-> last.value, bytes |-> r.bytes,
                        list |-> r.list]
       IN  done(packInternal(last.value, <<>>))
    /\ UNCHANGED <<connVars, protoVars, devVars, cipher>>

\* unpack(bytes), of what pack returned or of bytes from elsewhere
Unpack ==
    /\ last.op \in {"pack", "bytes"}
    /\ last' = [op |-> "unpack", from |-> last, out |-> unpack(last.bytes)]
    /\ UNCHANGED <<connVars, protoVars, devVars, cipher>>

\* the OPACK codec on its own
NextCodec ==
    \/ Pack
    \/ Unpack

InitCodec ==
    /\ Idle
    /\ last \in {[op |-> "value", value |-> v] : v \in Values}
                \cup {[op |-> "bytes", bytes |-> b] : b \in Raws}

SpecCodec == InitCodec /\ [][NextCodec]_vars

\* the maps given to writeTlv: up to MaxEntries entries of different tags,
\* in every order, with values that are empty, one byte long, and one byte
\* short of, exactly and one byte over each multiple of 255 up to MaxChunks
TlvTags == {1, 2, 4, 10}
Filled(n) == [i \in 1..n |-> i % 251]
TlvLengths == {0, 1} \cup {k * 255 + d : k \in 1..MaxChunks, d \in {-1, 0, 1}}
TlvMaps ==
    {map \in UNION {[1..n -> [tag : TlvTags, value : {Filled(n1) : n1 \in TlvLengths}]] :
                       n \in 1..MaxEntries} :
        \A i, j \in 1..Len(map) : map[i].tag = map[j].tag => i = j}

\* the bytes given to readTlv directly: what writeTlv makes of a map of one
\* entry, cut to one byte, to three bytes, and by one and by two bytes at the end
TlvCuts ==
    UNION {{SubSeq(bytes, 1, n) :
               n \in {1, 3, Len(bytes) - 2, Len(bytes) - 1} \cap (1..(Len(bytes) - 1))} :
              bytes \in {writeTlv(<<[tag |-> 2, value |-> Filled(n1)]>>) :
                            n1 \in TlvLengths}}

\* writeTlv(map)
WriteTlv ==
    /\ last.op = "map"
    /\ last' = [op |-> "writeTlv", map |-> last.map, bytes |-> writeTlv(last.map)]
    /\ UNCHANGED <<connVars, protoVars, devVars, cipher>>

\* readTlv(bytes), of what writeTlv returned or of bytes from elsewhere.
\* readTlv has no throw and calls nothing that throws (subarray clips, a
\* missing length byte reads as undefined): it always returns a map.
ReadTlv ==
    /\ last.op \in {"writeTlv", "cut"}
    /\ last' = [op |-> "readTlv", from |-> last, thrown |-> "",
                out |-> readTlv(last.bytes)]
    /\ UNCHANGED <<connVars, protoVars, devVars, cipher>>

\* the TLV8 codec on its own
NextTlv ==
    \/ WriteTlv
    \/ ReadTlv

InitTlv ==
    /\ Idle
    /\ last \in {[op |-> "map", map |-> map] : map \in TlvMaps}
                \cup {[op |-> "cut", bytes |-> b] : b \in TlvCuts}

SpecTlv == InitTlv /\ [][NextTlv]_vars

\* Pair-Setup against a device that answers honestly or asks the client to
\* back off, at every step
NextBackOff ==
    \/ Start
    \/ SocketConnect
    \/ StartPairing(SigningKeys)
    \/ FinishPairing({DevicePin}, {<<>>})
    \/ DeviceSetupM2({"honest", "backOff"})
    \/ DeviceSetupM4({"honest", "backOff"})
    \/ DeviceSetupM6({"honest", "backOff"})
    \/ TimerFire
    \/ Stop

SpecBackOff == InitProto /\ [][NextBackOff]_vars

\* encrypt(data) with the counter nonce, any number of times; `last` keeps
\* the nonces the cipher has sealed and opened under since it was made
EncryptNext ==
    /\ cipher.set /\ last.op \in {"newCipher", "encryptNext", "decryptNext"}
    /\ LET used == IF last.op = "newCipher" THEN [out |-> {}, in |-> {}] ELSE last.used
           nonce == buildNonce(cipher, cipher.outCounter)
           done(r) ==
               /\ cipher' = r.c
               /\ last' = [op |-> "encryptNext", ok |-> r.ok,
                            fresh |-> nonce \notin used.out,
                            used |-> IF r.ok THEN [used EXCEPT !.out = @ \cup {nonce}]
                                     ELSE used]
       IN  done(encrypt(cipher, <<1>>, NonceUndefined, <<>>))
    /\ UNCHANGED <<connVars, protoVars, devVars>>

\* decrypt(data) with the counter nonce, of the frame the peer seals with the
\* same counter
DecryptNext ==
    /\ cipher.set /\ last.op \in {"newCipher", "encryptNext", "decryptNext"}
    /\ LET used == IF last.op = "newCipher" THEN [out |-> {}, in |-> {}] ELSE last.used
           nonce == buildNonce(cipher, cipher.inCounter)
           done(r) ==
               /\ cipher' = r.c
               /\ last' = [op |-> "decryptNext", ok |-> r.ok,
                            fresh |-> nonce \notin used.in,
                            used |-> IF r.ok THEN [used EXCEPT !.in = @ \cup {nonce}]
                                     ELSE used]
       IN  done(decrypt(cipher, aeadSeal(cipher.inKey, nonce, <<>>, <<1>>),
                        NonceUndefined, <<>>))
    /\ UNCHANGED <<connVars, protoVars, devVars>>

\* one cipher for as long as a session may last
NextOverflow ==
    \/ CipherNew
    \/ EncryptNext
    \/ DecryptNext

SpecOverflow == InitConn /\ [][NextOverflow]_vars

\* the pairing flags of the scanner
PAIRING_DISABLED_MASK == 2
PAIRING_WITH_PIN_SUPPORTED_MASK == 512

\* a & b on non-negative integers
RECURSIVE BitAnd(_, _)
BitAnd(a, b) ==
    IF a = 0 \/ b = 0 THEN 0
    ELSE (IF a % 2 = 1 /\ b % 2 = 1 THEN 1 ELSE 0) + (2 * BitAnd(a \div 2, b \div 2))

\* the value of a hexadecimal digit, -1 for another character
HexValue(ch) ==
    IF ch \in 48..57 THEN ch - 48
    ELSE IF ch \in 97..102 THEN ch - 87
    ELSE IF ch \in 65..70 THEN ch - 55
    ELSE -1

\* parseInt(str, 16): an optional 0x, then the digits up to the first
\* character that is none; NaN without a digit
RECURSIVE parseDigits(_, _, _)
parseDigits(str, i, acc) ==
    IF i > Len(str) \/ HexValue(str[i]) < 0 THEN acc
    ELSE parseDigits(str, i + 1, (16 * acc) + HexValue(str[i]))

parseInt16(str) ==
    LET from == IF Len(str) >= 2 /\ str[1] = 48 /\ str[2] \in {120, 88} THEN 3 ELSE 1
    IN  IF from > Len(str) \/ HexValue(str[from]) < 0 THEN NaN
        ELSE parseDigits(str, from, 0)

\* device.properties.rpFl || device.properties.rpfl || '0x0' (a property is
\* a string or missing)
flagsOf(properties) ==
    LET flagsStr == IF properties.rpFl.has /\ properties.rpFl.s # <<>> THEN properties.rpFl.s
                    ELSE IF properties.rpfl.has /\ properties.rpfl.s # <<>>
                    THEN properties.rpfl.s
                    ELSE <<48, 120, 48>>
        parsed == parseInt16(flagsStr)
    IN  \* NaN & mask is 0
        IF parsed = NaN THEN 0 ELSE parsed

\* supportsPairing(device)
supportsPairing(properties) ==
    IF BitAnd(flagsOf(properties), PAIRING_DISABLED_MASK) # 0 THEN FALSE
    ELSE BitAnd(flagsOf(properties), PAIRING_WITH_PIN_SUPPORTED_MASK) # 0

\* isPairingDisabled(device)
isPairingDisabled(properties) ==
    BitAnd(flagsOf(properties), PAIRING_DISABLED_MASK) # 0

\* the flags of the devices scanned: every combination of these bits, written
\* as '0x' and hexadecimal digits
FlagBits == <<2, 4, 256, 512, 16384>>
RECURSIVE SumOf(_, _)
SumOf(bits, i) ==
    IF i > Len(FlagBits) THEN 0
    ELSE (IF i \in bits THEN FlagBits[i] ELSE 0) + SumOf(bits, i + 1)
FlagValues == {SumOf(bits, 1) : bits \in SUBSET (1..Len(FlagBits))}

RECURSIVE HexDigits(_)
HexDigits(n) ==
    IF n < 16 THEN <<HexDigit(n)>> ELSE HexDigits(n \div 16) \o <<HexDigit(n % 16)>>
Missing == [has |-> FALSE]
Property(str) == [has |-> TRUE, s |-> str]
Scanned ==
    {[flags |-> 0, properties |-> [rpFl |-> Missing, rpfl |-> Missing]]}
    \cup {[flags |-> n, properties |-> [rpFl |-> Missing,
                                         rpfl |-> Property(<<48, 120>> \o HexDigits(n))]] :
             n \in FlagValues}
    \cup {[flags |-> n, properties |-> [rpFl |-> Property(<<48, 120>> \o HexDigits(n)),
                                         rpfl |-> Missing]] :
             n \in FlagValues}

SupportsPairing ==
    /\ last.op = "scanned"
    /\ last' = [op |-> "supportsPairing", device |-> last.device,
                out |-> supportsPairing(last.device.properties)]
    /\ UNCHANGED <<connVars, protoVars, devVars, cipher>>

IsPairingDisabled ==
    /\ last.op = "scanned"
    /\ last' = [op |-> "isPairingDisabled", device |-> last.device,
                out |-> isPairingDisabled(last.device.properties)]
    /\ UNCHANGED <<connVars, protoVars, devVars, cipher>>

\* the scanner's helpers on scanned devices
NextFlags ==
    \/ SupportsPairing
    \/ IsPairingDisabled

InitFlags == Idle /\ last \in {[op |-> "scanned", device |-> d] : d \in Scanned}

SpecFlags == InitFlags /\ [][NextFlags]_vars

\* the messages the protocol has numbered since it was made
ApiSent ==
    LET x == CHOOSE x \in Xids : x <= xid /\ \A y \in Xids : y <= xid => y <= x
    IN  xid - x

\* the user's own calls are counted while there is a protocol to count them,
\* and the last session is left to connect() and disconnect()
ApiBudget ==
    IF api.protocol THEN ApiSent < MaxApiSends /\ Len(sockState) < MaxSessions ELSE TRUE

PendingXids ==
    LET pending == SelectSeq(calls, LAMBDA c : c.state = "pending")
    IN  [i \in 1..Len(pending) |-> pending[i].id]

\* CompanionAPI.connect()
ApiConnect ==
    /\ ~crashed /\ ApiSettled
    /\ IF api.protocol THEN TRUE ELSE Len(sockState) < MaxSessions
    /\ \E x \in Xids :
          LET done(r) ==
                  /\ CommitApi(r)
                  /\ last' = [op |-> "connect", returned |-> api.protocol, was |-> api.pc,
                               thrown |-> r.thrown]
          IN  done(apiConnect(Client, NoCredentials, x))
    /\ IF api.protocol THEN UNCHANGED <<wire, devKeys, devOut, devPV>>
       ELSE wire' = <<>> /\ devKeys' = NoCipher /\ devOut' = 0 /\ devPV' = NoPairVerify
    /\ UNCHANGED <<devFrames, devHonest, cipher>>

\* CompanionAPI.disconnect()
ApiDisconnect ==
    /\ ~crashed /\ ApiSettled
    /\ LET done(r) ==
               /\ CommitApi(r)
               /\ last' = [op |-> "disconnect", returned |-> ~api.protocol,
                            thrown |-> r.thrown]
       IN  done(apiDisconnect(Client))
    /\ UNCHANGED <<devVars, cipher>>

\* a command of the API outside connect() and disconnect(): fetchAttentionState()
ApiCommand ==
    /\ ~crashed /\ ApiSettled /\ ApiBudget
    /\ LET done(r) ==
               /\ Commit(r)
               /\ last' = [op |-> "sendCommand", was |-> api.pc, thrown |-> r.thrown]
       IN  done(sendCommand(Client, FetchAttentionState))
    /\ UNCHANGED <<devVars, cipher>>

\* CompanionAPI.subscribeEvent(event)
ApiSubscribe ==
    /\ ~crashed /\ api.pc = "connected" /\ ApiBudget
    /\ \E event \in {IMC, ITC} :
          LET done(r) ==
                  /\ Commit(r)
                  /\ last' = [op |-> "subscribeEvent", event |-> event,
                               thrown |-> r.thrown]
          IN  done(subscribeEvent(Client, event))
    /\ UNCHANGED <<devVars, cipher>>

\* CompanionAPI.unsubscribeEvent(event)
ApiUnsubscribe ==
    /\ ~crashed /\ api.pc = "connected" /\ ApiBudget
    /\ \E event \in {IMC, ITC} :
          LET done(r) ==
                  /\ Commit(r)
                  /\ last' = [op |-> "unsubscribeEvent", event |-> event,
                               thrown |-> r.thrown]
          IN  done(unsubscribeEvent(Client, event))
    /\ UNCHANGED <<devVars, cipher>>

\* the device answers a request that is waiting
Reply == Inbound({E_OPACK}, Replies(PendingXids))

\* the device closes the connection
PeerClose ==
    /\ Live
    /\ Commit(onSocketClose(Client, socket))
    /\ last' = Op("socketClose")
    /\ UNCHANGED <<devVars, cipher>>

NextApi ==
    \/ ApiConnect
    \/ SocketConnect
    \/ Reply
    \/ TimerFire
    \/ PeerClose
    \/ ApiCommand
    \/ ApiSubscribe
    \/ ApiUnsubscribe
    \/ ApiDisconnect

\* a CompanionAPI against a device that answers, answers with an error, stays
\* silent or hangs up
SpecApi == InitConn /\ [][NextApi]_vars

\* CompanionPairVerifyProcedure.encryptionKeys(salt, outputInfo, inputInfo)
encryptionKeys(h, salt, outputInfo, inputInfo) == verify2(h, salt, outputInfo, inputInfo)

\* the handler is in nobody's hands: no procedure of the protocol drives it
Unused == ~crashed /\ ~isStarted /\ pairSetup.pc = "none"

\* a call of the handler has returned or thrown, and left the handler as h
Called(h, op) ==
    /\ Assign([Client EXCEPT !.srp = h])
    /\ last' = op
    /\ UNCHANGED <<devVars, cipher>>

\* the pairing data of the M2 a device sends to the handler's verify key
M2For(h, variant) ==
    pairingDataOf(pack(deviceM2(IF h.verifyKey = <<>> THEN <<1>>
                                ELSE x25519GetPublicKey(h.verifyKey), variant).msg))

\* what a device that shares the handler's session key seals in its M6
M6For(h) ==
    IF h.sessionKey = <<>> THEN <<0>>
    ELSE encrypt(NewCipher(h.sessionKey, h.sessionKey, 8),
                 writeTlv(<<[tag |-> Identifier, value |-> AtvId],
                            [tag |-> PublicKey, value |-> ed25519GetPublicKey(DeviceLtsk)]>>),
                 NonceString(PSMsg06), <<>>).out

MessageOf(r) == IF r.ok THEN "" ELSE r.thrown.msg

\* srp.initialize(), with the key pairs it generates
Initialize ==
    /\ Unused
    /\ \E key \in PrivateKeys :
          Called(initialize([srp EXCEPT !.entropy = key]),
                 [op |-> "initialize", thrown |-> "", early |-> FALSE])

\* srp.verify1(credentials, sessionPubKey, encrypted) with what a device sent
Verify1 ==
    /\ Unused
    /\ \E variant \in M2Variants :
          LET done(r) ==
                  Called(r.srp, [op |-> "verify1", thrown |-> MessageOf(r),
                                 early |-> "initialize" \notin srp.ran])
              sent(m2) == done(verify1(srp, Paired, TlvGet(m2, PublicKey),
                                       TlvGet(m2, EncryptedData)))
          IN  sent(M2For(srp, variant))

\* srp.verify2(...), by itself or through the procedure's encryptionKeys
Verify2 ==
    /\ Unused
    /\ LET done(r) ==
               Called(srp, [op |-> "verify2", thrown |-> MessageOf(r),
                            early |-> "verify1" \notin srp.ran,
                            verified |-> srp.verified])
       IN  done(encryptionKeys(srp, SRP_SALT, SRP_OUTPUT_INFO, SRP_INPUT_INFO))

\* srp.step1(pin)
Step1 ==
    /\ Unused
    /\ \E pin \in {DevicePin, OtherPin} :
          LET done(r) ==
                  Called(r.srp, [op |-> "step1", thrown |-> MessageOf(r),
                                 early |-> "initialize" \notin srp.ran])
          IN  done(step1(srp, pin))

\* srp.step2(atvPubKey, atvSalt)
Step2 ==
    /\ Unused
    /\ LET done(r) ==
               Called(r.srp, [op |-> "step2", thrown |-> MessageOf(r),
                              early |-> "step1" \notin srp.ran])
       IN  done(step2(srp, devicePublic, DeviceSalt))

\* srp.step3(name)
Step3 ==
    /\ Unused
    /\ \E name \in {<<>>, <<116, 118>>} :
          LET done(r) ==
                  Called(r.srp, [op |-> "step3", thrown |-> MessageOf(r),
                                 early |-> "step2" \notin srp.ran])
          IN  done(step3(srp, name))

\* srp.step4(encryptedData)
Step4 ==
    /\ Unused
    /\ \E encryptedData \in {<<0>>, M6For(srp)} :
          LET done(r) ==
                  Called(srp, [op |-> "step4", thrown |-> MessageOf(r),
                               early |-> "step3" \notin srp.ran])
          IN  done(step4(srp, encryptedData))

NextSrp ==
    \/ Initialize
    \/ Verify1
    \/ Verify2
    \/ Step1
    \/ Step2
    \/ Step3
    \/ Step4
    \/ srp.ran = {} /\ Start
    \/ SocketConnect
    \/ isStarted /\ StartPairing(SigningKeys)
    \/ isStarted /\ FinishPairing({DevicePin}, {<<>>})
    \/ DeviceSetupM2(SetupM2Variants)
    \/ TimerFire

\* an SRPAuthHandler whose steps are called in any order, and a Pair-Setup
\* procedure on a handler of its own
SpecSrp == InitProto /\ [][NextSrp]_vars

\* the SeqNo variants of the device's replies
SeqNoVariants == {"honest", "seqNo"}

NextSeqNo ==
    \/ StartWith(<<Paired, NoCredentials>>, {<<3>>}, MaxConnects)
    \/ SocketConnect
    \/ DeviceM2(SeqNoVariants)
    \/ DeviceM4({FALSE})
    \/ task.creds = NoCredentials /\ StartPairing({<<5>>})
    \/ FinishPairing({DevicePin}, {<<>>})
    \/ DeviceSetupM2(SeqNoVariants)
    \/ DeviceSetupM4(SeqNoVariants)
    \/ DeviceSetupM6(SeqNoVariants)
    \/ TimerFire

\* Pair-Verify and Pair-Setup against a device whose replies carry the SeqNo
\* of their place in the exchange or another one
SpecSeqNo == InitProto /\ [][NextSeqNo]_vars

\* the multiplexer under the assumption that every armed timer fires
SpecMuxFair == SpecMux /\ \A c \in 1..MaxCalls : WF_vars(TimerFireOf(c))

----------------------------------------------------------------------------
(* The framed transport: nonce counters, the writer, the reader *)

\* the concatenation of the frames the device has written
RECURSIVE Stream(_)
Stream(fs) == IF fs = <<>> THEN <<>> ELSE Stream(SubSeq(fs, 1, Len(fs) - 1)) \o fs[Len(fs)].bytes

\* how many of the frames fs lie wholly within the first n bytes of their stream
RECURSIVE Whole(_, _)
Whole(fs, n) ==
    IF fs = <<>> \/ Len(fs[1].bytes) > n THEN 0
    ELSE 1 + Whole(Tail(fs), n - Len(fs[1].bytes))

\* the bytes the socket has handed to handleData so far
Delivered == Len(Stream(devFrames)) - Len(wire)

\* the entries of a log that were sealed (written) or opened (frames)
Sealed(log) == SelectSeq(log, LAMBDA w : w.ctr >= 0)

NonEmpty(fs) == SelectSeq(fs, LAMBDA f : Len(f.payload) > 0)

\* C8, the counters in a state: on a keyed connection the send counter is the
\* number of frames sealed so far and the k-th sealed frame used counter k-1
\* (so consecutive sealed frames use n and n+1); likewise the receive counter
\* and the frames opened
C8_Counted ==
    chacha.set =>
        /\ chacha.outCounter = Len(Sealed(written))
        /\ \A k \in 1..Len(Sealed(written)) : Sealed(written)[k].ctr = k - 1
        /\ chacha.inCounter = Len(Sealed(frames))
        /\ \A k \in 1..Len(Sealed(frames)) : Sealed(frames)[k].ctr = k - 1

\* C8, the counters in a step: sending a non-empty frame on a keyed connection
\* advances the send counter by one and nothing else does; a chunk advances
\* the receive counter by the number of non-empty frames it completes and
\* nothing else does; a frame with empty payload advances neither; on a cipher
\* used directly a call with the counter nonce advances its direction by one
\* and a call with an explicit nonce advances no counter
C8_Step ==
    /\ (chacha.set /\ chacha'.set) =>
          /\ chacha'.outCounter = chacha.outCounter +
                (IF last'.op = "send" /\ last'.thrown = "" /\ Len(last'.data) > 0
                 THEN 1 ELSE 0)
          /\ chacha'.inCounter = chacha.inCounter +
                (IF last'.op = "data"
                 THEN Len(NonEmpty(SubSeq(devFrames, Whole(devFrames, Delivered) + 1,
                                          Whole(devFrames', Delivered'))))
                 ELSE 0)
    /\ (cipher.set /\ cipher'.set) =>
          /\ cipher'.outCounter = cipher.outCounter +
                (IF last'.op = "encrypt" /\ last'.nonce = "undefined" THEN 1 ELSE 0)
          /\ cipher'.inCounter = cipher.inCounter +
                (IF last'.op = "decrypt" /\ last'.nonce = "undefined" THEN 1 ELSE 0)

\* C8: on a keyed connection each direction's nonce counter advances by
\* exactly one per frame sealed or opened with the counter nonce, consecutive
\* non-empty frames of a direction use counters n and n+1, and neither an
\* explicit-nonce call nor an empty frame advances a counter
C8_NonceCounters == []C8_Counted /\ [][C8_Step]_vars

\* two sealed frames written and two opened, with an empty frame sent in
\* between, and on the directly used cipher a call with an explicit nonce
C8_Witness ==
    /\ chacha.set /\ chacha.outCounter = 2 /\ chacha.inCounter = 2
    /\ Len(Sealed(frames)) = 2
    /\ cipher.set /\ last.op = "decrypt" /\ last.nonce = "string" /\ last.ok

\* C9: for every frame send() writes, the length in the header is the number
\* of bytes written after the header: len(plaintext) + 16 when keys are
\* installed and the plaintext is non-empty, len(plaintext) otherwise; what
\* follows the header is then the AEAD seal of the plaintext under the send
\* key with the header as AAD (ending in a 16-byte tag), otherwise the plaintext
C9_HeaderLength ==
    (last.op = "send" /\ last.thrown = "") =>
        LET w == written[Len(written)].bytes
            header == subarray(w, 0, HEADER_LENGTH)
            body == subarray(w, HEADER_LENGTH, Len(w))
            sealed == last.keyed /\ Len(last.data) > 0
        IN  /\ Len(w) >= HEADER_LENGTH
            /\ header[1] = last.ft
            /\ readUIntBE3(header) = Len(body)
            /\ Len(body) = (IF sealed THEN Len(last.data) + 16 ELSE Len(last.data))
            /\ body = (IF sealed
                       THEN aeadSeal(OutputKey, DataNonce(last.ctr), header, last.data)
                       ELSE last.data)
            /\ sealed => aeadOpen(OutputKey, DataNonce(last.ctr), header, body) =
                             [ok |-> TRUE, out |-> last.data]

\* a non-empty frame was just sent on a keyed connection
C9_Witness ==
    /\ last.op = "send" /\ last.thrown = "" /\ last.keyed /\ Len(last.data) = 2
    /\ Len(written[Len(written)].bytes) = HEADER_LENGTH + 2 + AUTH_TAG_LENGTH

\* C10: whatever the chunks in which the socket delivers a stream of
\* well-formed frames, the frames emitted so far are exactly the frames that
\* lie wholly within the bytes delivered, each once, in wire order, with the
\* header's type and the payload, and the buffer holds the delivered bytes of
\* the incomplete trailing frame
C10_Reassembly ==
    (devHonest /\ Len(sockState) = 1) =>
        LET k == Whole(devFrames, Delivered)
            used == Len(Stream(SubSeq(devFrames, 1, k)))
        IN  /\ Len(frames) = k
            /\ \A i \in 1..k : /\ frames[i].type = devFrames[i].type
                                /\ frames[i].payload = devFrames[i].payload
            /\ buffer = SubSeq(Stream(devFrames), used + 1, Delivered)

\* a chunk has completed a frame whose first bytes were held back, after an
\* earlier frame, and left the first bytes of nothing behind
C10_Witness ==
    /\ last.op = "data" /\ last.held > 0 /\ Len(frames) = 2 /\ buffer = <<>>
    /\ frames[2].payload = <<9, 9>> /\ frames[1].type # frames[2].type

----------------------------------------------------------------------------
(* The multiplexer: pairing by _x, timeouts, close, completion *)

\* the step took an OPACK frame whose decoded map has _t = Response
IsResponse(l) ==
    l.op = "frame" /\ l.ft \in OPACK_FRAMES /\ Number(Get(l.msg, Key_t)) = Response

\* the exchangeOpack calls suspended under transaction id k
PendingUnder(k) ==
    {c \in 1..Len(calls) :
        calls[c].kind = "opack" /\ calls[c].id = k /\ calls[c].state = "pending"}

Settled(c) == c <= Len(calls) /\ calls[c].state # "pending"

\* C1: with only exchangeOpack requests in flight, an OPACK frame with _t = 3
\* and _x = k completes exactly the request registered under k (rejected with
\* 'Command failed' and the _em string when the map has _em, else resolved
\* with the decoded map) and clears its timer, removes exactly the entry k
\* from the table, and changes no other request, entry or timer.
C1_Step ==
    IsResponse(last') =>
        LET k == Number(Get(last'.msg, Key_x))
            failed == In(last'.msg, Key_em)
        IN  /\ Cardinality(PendingUnder(k)) <= 1
            /\ Len(calls') = Len(calls)
            /\ \A c \in 1..Len(calls) :
                  IF c \in PendingUnder(k)
                  THEN /\ calls'[c].state = (IF failed THEN "rejected" ELSE "resolved")
                       /\ calls'[c].timer = "cleared"
                       /\ failed => calls'[c].err = CommandFailed(Get(last'.msg, Key_em))
                       /\ ~failed => calls'[c].val = unpack(pack(last'.msg)).value
                  ELSE IF calls[c].id = k
                  THEN /\ calls'[c].state = calls[c].state
                       /\ calls'[c].val = calls[c].val
                       /\ calls'[c].err = calls[c].err
                  ELSE calls'[c] = calls[c]
            /\ queues' = SelectSeq(queues, LAMBDA entry : entry.key # k)

C1_PairedByXid == [][C1_Step]_vars

\* the second of two pending requests was completed by its response, the
\* first is still suspended with its entry and its timer
C1_Witness ==
    /\ IsResponse(last) /\ ~In(last.msg, Key_em)
    /\ Len(calls) = 2
    /\ calls[2].state = "resolved" /\ calls[2].timer = "cleared"
    /\ Number(Get(calls[2].val, Key_x)) = calls[2].id
    /\ calls[1].state = "pending" /\ calls[1].timer = "armed"
    /\ QIndex(queues, calls[1].id) > 0 /\ Len(queues) = 1

\* C2: a request made without a timeout argument waits 5000 ms; when the timer
\* of a request expires, the table has no entry under its key afterwards and a
\* caller still suspended is failed with the timeout error; a request resolved
\* by its frame has its timer cleared and is never failed afterwards.
C2_Step ==
    /\ last'.op \in {"exchangeOpack", "exchangeAuth"} =>
          /\ Len(calls') = Len(calls) + 1
          /\ calls'[Len(calls')].ms = (IF last'.timeout = NoTimeout THEN 5000
                                       ELSE last'.timeout)
    /\ last'.op = "timer" =>
          /\ QIndex(queues', calls[last'.call].id) = 0
          /\ calls[last'.call].state = "pending" =>
                /\ calls'[last'.call].state = "rejected"
                /\ calls'[last'.call].err = TimeoutError(calls[last'.call].ms)
    /\ \A c \in 1..Len(calls) :
          calls[c].state = "resolved" =>
              /\ calls'[c].state = "resolved"
              /\ calls'[c].val = calls[c].val

C2_Cleared ==
    \A c \in 1..Len(calls) : calls[c].state = "resolved" => calls[c].timer = "cleared"

C2_Timeouts == []C2_Cleared /\ [][C2_Step]_vars

\* the timer of a request with the default timeout has just failed it, after
\* another request was resolved by its frame
C2_Witness ==
    /\ last.op = "timer"
    /\ calls[last.call].state = "rejected" /\ calls[last.call].timer = "fired"
    /\ calls[last.call].ms = 5000
    /\ QIndex(queues, calls[last.call].id) = 0
    /\ \E c \in 1..Len(calls) : calls[c].state = "resolved"

\* C3: whenever the transport closes - stop(), or the 'close' event of the
\* socket - every suspended request is failed with 'Protocol stopped' and the
\* table is empty afterwards.
C3_Step ==
    last'.op \in {"stop", "socketClose"} =>
        /\ queues' = <<>>
        /\ \A c \in 1..Len(calls) :
              calls[c].state = "pending" /\ QIndex(queues, calls[c].id) > 0 =>
                  /\ calls'[c].state = "rejected"
                  /\ calls'[c].err = ProtocolStopped

C3_FailedOnClose == [][C3_Step]_vars

\* C4: every exchangeAuth and exchangeOpack call is eventually settled, given
\* that armed timers fire; a suspended caller is released only by a frame, a
\* timer or stop(), and a settled call keeps its outcome.
C4_Step ==
    \A c \in 1..Len(calls) :
        /\ Settled(c) =>
              /\ calls'[c].state = calls[c].state
              /\ calls'[c].val = calls[c].val
              /\ calls'[c].err = calls[c].err
        /\ ~Settled(c) /\ calls'[c].state # "pending" =>
              last'.op \in {"frame", "timer", "stop"}

C4_Completes ==
    /\ \A c \in 1..MaxCalls : (c <= Len(calls)) ~> Settled(c)
    /\ [][C4_Step]_vars

\* both requests are settled: one by a frame or by stop(), one by its timer
C4_Witness ==
    /\ Len(calls) = 2 /\ Settled(1) /\ Settled(2)
    /\ \E c \in 1..2 : calls[c].timer = "fired"
    /\ \E c \in 1..2 : calls[c].timer = "cleared"

----------------------------------------------------------------------------
(* Pair-Verify and the data channel *)

\* start(credentials) is suspended on its exchange `pc`, whose reply is due
Awaits(pc) ==
    /\ task.pc = pc
    /\ calls[task.call].state = "pending"
    /\ QIndex(queues, PV_Next) > 0

Wrote(log, frameType) == \E i \in 1..Len(log) : log[i].type = frameType

\* enableEncryption has run in this step: the connection holds a cipher
\* that is not the one it held, advanced by the frames of a step
Installs ==
    /\ chacha'.set
    /\ \/ ~chacha.set
       \/ chacha'.outKey # chacha.outKey \/ chacha'.inKey # chacha.inKey
       \/ chacha'.outCounter < chacha.outCounter \/ chacha'.inCounter < chacha.inCounter

\* C5: keys are installed only in the step in which start(credentials) takes
\* the M4 reply, having passed, in this order, the M2 reply, verify1 and the
\* sending of M3 on PV_Next (both written in the clear); a start that has
\* returned has installed the keys verify2 derives; when an exchange is
\* rejected or times out start fails in that step and installs nothing, a
\* start that has failed has installed nothing, and on a connection started
\* for the first time the connection is keyed only once start has returned.
C5_Keyed ==
    /\ "keys" \in {task.trace[i] : i \in 1..Len(task.trace)} =>
          /\ task.pc = "done"
          /\ task.trace = <<"M2", "verify1", "M3", "M4", "keys">>
          /\ task.call > 1
          /\ calls[task.call - 1].ft = PV_Start /\ calls[task.call - 1].state = "resolved"
          /\ calls[task.call].ft = PV_Next /\ calls[task.call].state = "resolved"
          /\ chacha.set
          /\ chacha.outKey = hkdfExpand(SRP_SALT, SRP_OUTPUT_INFO, srp.sharedSecret)
          /\ chacha.inKey = hkdfExpand(SRP_SALT, SRP_INPUT_INFO, srp.sharedSecret)
    /\ task.pc = "done" /\ task.creds # NoCredentials =>
          "keys" \in {task.trace[i] : i \in 1..Len(task.trace)}
    /\ Len(sockState) = 1 /\ chacha.set => task.pc = "done"

C5_Unkeyed ==
    /\ task.pc = "failed" => "keys" \notin {task.trace[i] : i \in 1..Len(task.trace)}
    /\ Len(sockState) = 1 /\ task.pc = "failed" => ~chacha.set
    /\ task.pc \in {"m2", "m4"} /\ ~crashed => calls[task.call].state = "pending"

C5_Step ==
    /\ Installs =>
          /\ last'.op = "m4" /\ Awaits("m4")
          /\ task.trace = <<"M2", "verify1", "M3">>
          /\ task'.trace = <<"M2", "verify1", "M3", "M4", "keys">>
          /\ \E i, j \in 1..Len(written) :
                /\ i < j
                /\ Received(written[i], PV_Start) /\ Received(written[j], PV_Next)
    /\ (Awaits("m2") \/ Awaits("m4")) /\ last'.op \in {"timer", "stop"}
       /\ calls'[task.call].state = "rejected"
           => task'.pc = "failed" /\ ~Installs

C5_KeysAfterM4 == [](C5_Keyed /\ C5_Unkeyed) /\ [][C5_Step]_vars

\* the M4 reply has just keyed the connection
C5_Witness ==
    /\ last.op = "m4" /\ chacha.set /\ task.pc = "done"
    /\ chacha.outKey = devKeys.inKey /\ chacha.inKey = devKeys.outKey
    /\ chacha.outKey # chacha.inKey

\* what verify1 throws for each way the M2 differs
C6_Thrown(variant) == IF variant = "ephemeral" THEN "Error" ELSE "AuthenticationError"

C6_Accepts ==
    /\ task'.pc = "m4"
    /\ Len(written') = Len(written) + 1
    /\ written'[Len(written')].type = PV_Next

C6_Rejects(name) ==
    /\ task'.pc = "failed"
    /\ task'.err.name = name
    /\ written' = written

\* C6: when the M2 reply arrives, M3 is produced and sent only if the M2 is
\* the honest one of the device whose ltpk is stored.  For another ltpk,
\* another identifier, a damaged signature or a signature over another
\* ephemeral key verify1 throws an AuthenticationError; for an M2 whose public
\* key is not the one its payload was encrypted under verify1 throws the
\* cipher's Error; in each of these cases start() fails and nothing is
\* written.
C6_Step ==
    last'.op = "m2" /\ Awaits("m2") =>
        IF last'.variant = "honest" /\ task.creds = Paired
        THEN C6_Accepts
        ELSE C6_Rejects(C6_Thrown(last'.variant))

C6_Verify1 == [][C6_Step]_vars

\* the same, with an AuthenticationError in every case of rejection
C6_StepOriginal ==
    last'.op = "m2" /\ Awaits("m2") =>
        IF last'.variant = "honest" /\ task.creds = Paired
        THEN C6_Accepts
        ELSE C6_Rejects("AuthenticationError")

C6_Verify1Original == [][C6_StepOriginal]_vars

\* an M2 with a damaged signature has just been refused
C6_Witness ==
    /\ last.op = "m2" /\ last.variant = "signature"
    /\ task.pc = "failed"
    /\ task.err = AuthenticationError("Signature verification failed")
    /\ task.trace = <<"M2">>
    /\ ~Wrote(written, PV_Next)

\* C7: once the M4 reply has been received, every non-empty frame the client
\* writes is sealed under the output key with its header as AAD, and every
\* non-empty frame handed to the multiplexer - also one that follows the M4
\* reply in the same chunk - has been opened.
C7_Written ==
    last'.op = "send" /\ task.pc = "done" /\ last'.thrown = "" /\ Len(last'.data) > 0 =>
        LET w == written'[Len(written')]
            header == subarray(w.bytes, 0, HEADER_LENGTH)
        IN  /\ w.sealed
            /\ w.bytes = header \o aeadSeal(chacha.outKey, DataNonce(w.ctr), header,
                                            last'.data)

C7_Read ==
    /\ last'.op = "frame" /\ task.pc = "done" =>
          \A j \in 1..Len(last'.handed) :
              Len(last'.handed[j].payload) > 0 => last'.handed[j].opened
    /\ last'.op = "m4" /\ Awaits("m4") =>
          \A j \in 2..Len(last'.handed) :
              Len(last'.handed[j].payload) > 0 => last'.handed[j].opened

C7_SealedAfterM4 == [][C7_Written]_vars /\ [][C7_Read]_vars

----------------------------------------------------------------------------
(* Failures of the session *)

\* a frame has failed to open and the 'error' event was taken by a listener
C11_Failed == \E i \in 1..Len(connErrors) : connErrors[i] = "decrypt failed"

C11_Closed == C11_Failed => socket = 0

C11_Step == C11_Failed => frames' = frames

\* C11: once an inbound frame has failed to open the connection is failed (it
\* holds no socket), and no later frame is opened or handed to the 'frame'
\* listener.
C11_FatalOpenFailure == []C11_Closed /\ [][C11_Step]_vars

\* the connection holds no socket and no cipher
C12_Destroyed == socket = 0 => ~chacha.set

\* the frames of a handshake were written in the clear
C12_Plain == \A i \in 1..Len(written) : written[i].type \in AUTH_FRAMES => ~written[i].sealed

\* C12: a connection that has been closed holds no keys and no counters, so
\* that the Pair-Verify frames of the next start(credentials) are written as
\* plaintext.
C12_KeysUntilDisconnect == [](C12_Destroyed /\ C12_Plain)

----------------------------------------------------------------------------
(* The multiplexer: auth frames, events, unknown responses, transaction ids *)

\* the key of the table an auth request of this frame type waits under
NextOf(frameType) == IF frameType \in {PS_Start, PS_Next} THEN PS_Next ELSE PV_Next

C17_Registered ==
    last'.op = "exchangeAuth" =>
        LET c == Len(calls')
            key == NextOf(last'.ft)
        IN  /\ c = Len(calls) + 1
            /\ calls'[c].id = key /\ calls'[c].timer = "armed"
            /\ QIndex(queues', key) > 0 /\ queues'[QIndex(queues', key)].call = c
            /\ queuesDelete(queues', key) = queuesDelete(queues, key)

C17_Resolved ==
    last'.op = "frame" /\ last'.ft \in AUTH_FRAMES =>
        LET i == QIndex(queues, last'.ft)
        IN  IF i = 0
            THEN calls' = calls /\ queues' = queues
            ELSE /\ queues' = SelectSeq(queues, LAMBDA entry : entry.key # last'.ft)
                 /\ Len(calls') = Len(calls)
                 /\ \A c \in 1..Len(calls) :
                       IF c # queues[i].call THEN calls'[c] = calls[c]
                       ELSE /\ calls'[c].timer = "cleared"
                            /\ IF calls[c].state = "pending"
                               THEN /\ calls'[c].state = "resolved"
                                    /\ calls'[c].val = unpack(pack(last'.msg)).value
                               ELSE /\ calls'[c].state = calls[c].state
                                    /\ calls'[c].err = calls[c].err

\* C17: exchangeAuth registers its request under PS_Next when its frame type
\* is PS_Start or PS_Next and under PV_Next when it is PV_Start or PV_Next,
\* leaving the other entries alone; an inbound auth frame of type T resolves
\* the request whose entry is keyed by T with the decoded map, removes that
\* entry and clears its timer, and changes no other request or entry; with no
\* entry under T it changes nothing.
C17_AuthByNext == [][C17_Registered]_vars /\ [][C17_Resolved]_vars

\* a PS_Next frame has resolved the request made with PS_Start while a request
\* made with PV_Start is still waiting under PV_Next
C17_Witness ==
    /\ last.op = "frame" /\ last.ft = PS_Next
    /\ \E c, d \in 1..Len(calls) :
          /\ calls[c].ft = PS_Start /\ calls[c].state = "resolved"
          /\ calls[c].timer = "cleared" /\ calls[c].val = AuthData
          /\ calls[d].ft = PV_Start /\ calls[d].state = "pending"
          /\ queues = <<[key |-> PV_Next, call |-> d]>>

\* the step took an OPACK frame whose decoded map has _t = Event
IsEvent(l) == l.op = "frame" /\ l.ft \in OPACK_FRAMES /\ Number(Get(l.msg, Key_t)) = Event

\* C18: an OPACK frame with _t = 1 emits exactly one 'event', with the _i and
\* the _c of the decoded map, and changes no request, no entry of the table
\* and no timer, also when its _x is the key of a pending request; it emits
\* no error.
C18_Step ==
    IsEvent(last') =>
        LET decoded == unpack(pack(last'.msg)).value
        IN  /\ last'.emitted = <<[name |-> Get(decoded, Key_i), body |-> Get(decoded, Key_c)]>>
            /\ last'.thrown = ""
            /\ queues' = queues /\ calls' = calls /\ protoErrors' = protoErrors

C18_EventOnly == [][C18_Step]_vars

\* an event has been emitted whose _x is the key of a request that is pending
C18_Witness ==
    /\ IsEvent(last) /\ Len(last.emitted) = 1
    /\ last.emitted[1].name = Str(<<101>>)
    /\ \E c \in 1..Len(calls) :
          /\ calls[c].id = Number(Get(last.msg, Key_x))
          /\ calls[c].state = "pending" /\ calls[c].timer = "armed"
          /\ QIndex(queues, calls[c].id) > 0

\* C19: a response whose _x is the key of no entry of the table - the request
\* has timed out, or no request was made under it - completes no caller,
\* emits no event and no error, and leaves the table as it is.
C19_Step ==
    IsResponse(last') /\ QIndex(queues, Number(Get(last'.msg, Key_x))) = 0 =>
        /\ calls' = calls /\ queues' = queues
        /\ last'.emitted = <<>> /\ last'.thrown = ""
        /\ protoErrors' = protoErrors /\ connErrors' = connErrors /\ ~crashed'

C19_UnknownDropped == [][C19_Step]_vars

\* the response to a request that has timed out has arrived, while another
\* request is pending
C19_Witness ==
    /\ IsResponse(last) /\ last.emitted = <<>>
    /\ \E c, d \in 1..Len(calls) :
          /\ calls[c].id = Number(Get(last.msg, Key_x))
          /\ calls[c].timer = "fired" /\ calls[c].state = "rejected"
          /\ calls[c].err = TimeoutError(DEFAULT_TIMEOUT)
          /\ calls[d].state = "pending" /\ queues = <<[key |-> calls[d].id, call |-> d]>>

\* the _x of the frame written last
WrittenXid(log) == Number(Get(unpack(log[Len(log)].plain).value, Key_x))

\* C20, in a state: the counter started from a value in 0..65535, every id
\* handed to a request is below the counter, a later request has the greater
\* id, and no two requests share one.
C20_Fresh ==
    /\ xid - Allocated \in 0..65535
    /\ \A c \in 1..Len(calls) : calls[c].kind = "opack" => calls[c].id < xid
    /\ \A c, d \in 1..Len(calls) :
          c < d /\ calls[c].kind = "opack" /\ calls[d].kind = "opack"
              => calls[c].id < calls[d].id

\* C20, in a step: exchangeOpack, and sendOpack of a message without _x, hand
\* out the value of the counter as the _x of the message and advance the
\* counter by one; sendOpack of a message with an _x and every other step
\* leave the counter alone.
C20_Step ==
    /\ last'.op = "exchangeOpack" =>
          /\ xid' = xid + 1
          /\ calls'[Len(calls')].id = xid
          /\ Len(written') > Len(written) => WrittenXid(written') = xid
    /\ last'.op = "sendOpack" =>
          IF In(last'.msg, Key_x)
          THEN /\ xid' = xid
               /\ Len(written') > Len(written)
                     => WrittenXid(written') = Number(Get(last'.msg, Key_x))
          ELSE /\ xid' = xid + 1
               /\ Len(written') > Len(written) => WrittenXid(written') = xid
    /\ last'.op \notin {"exchangeOpack", "sendOpack"} => xid' = xid

C20_XidCounter == []C20_Fresh /\ [][C20_Step]_vars

\* a request, a message sent without waiting, and a second request have taken
\* three consecutive ids; both requests are pending
C20_Witness ==
    /\ last.op = "exchangeOpack" /\ Len(calls) = 2 /\ Len(written) = 3
    /\ calls[1].state = "pending" /\ calls[2].state = "pending"
    /\ calls[2].id = calls[1].id + 2 /\ xid = calls[1].id + 3
    /\ Number(Get(unpack(written[2].plain).value, Key_x)) = calls[1].id + 1

----------------------------------------------------------------------------
(* Errors reported by the device *)

\* C15: when the device's reply to M1 or to M3 carries a TLV Error,
\* start(credentials) fails in the step that takes the reply and no keys are
\* installed.
C15_Step ==
    last'.op = "deviceError" /\ (Awaits("m2") \/ Awaits("m4")) =>
        task'.pc = "failed" /\ ~chacha'.set

C15_ErrorSurfaced == [][C15_Step]_vars

----------------------------------------------------------------------------
(* Pair-Setup *)

\* the pairing procedure is suspended on the reply to M1 ("m2"), M3 ("m4") or
\* M5 ("m6")
AwaitsSetup(pc) ==
    /\ pairSetup.pc = pc
    /\ calls[pairSetup.call].state = "pending"

\* this step hands the procedure the reply it is suspended on
Replied(pc) ==
    /\ AwaitsSetup(pc)
    /\ calls'[pairSetup.call].state = "resolved"

\* the TLV of a reply (empty when the reply has no pairing data)
ReplyTlv(val) ==
    IF Get(val, Key_pd).t = "Buffer" THEN readTlv(Get(val, Key_pd).s) ELSE <<>>

\* the server proof M2 of the client's SRP session
ExpectedProof ==
    serverProof(computePublicEphemeral(srp.srpEphemeral), srp.srpSession.proof,
                srp.srpSession.key)

\* the Pair-Setup messages written so far, by sequence number
RECURSIVE SetupSent(_)
SetupSent(log) ==
    IF log = <<>> THEN <<>>
    ELSE IF log[1].type \in {PS_Start, PS_Next}
    THEN <<TlvGet(pairingDataOf(log[1].plain), SeqNo)[1]>> \o SetupSent(Tail(log))
    ELSE SetupSent(Tail(log))

\* C13: a reply to M3 whose Proof is not the server proof of the client's SRP
\* session (or that has none) makes finishPairing fail, and no M5 is written
C13_Step ==
    (/\ Replied("m4")
     /\ \/ ~TlvHas(ReplyTlv(calls'[pairSetup.call].val), Proof)
        \/ TlvGet(ReplyTlv(calls'[pairSetup.call].val), Proof) # ExpectedProof)
    => pairSetup'.pc = "failed" /\ written' = written

C13_ServerProofVerified == [][C13_Step]_vars

\* what a sealed pairing TLV opens to under the client's session key; <<>>
\* when it does not open
OpenedWith(nonce, tlv) ==
    IF ~TlvHas(tlv, EncryptedData) THEN <<>>
    ELSE LET opened(d) == IF d.ok THEN readTlv(d.out) ELSE <<>>
         IN  opened(decrypt(NewCipher(srp.sessionKey, srp.sessionKey, 8),
                            TlvGet(tlv, EncryptedData), NonceString(nonce), <<>>))

\* the reply lacks what the step needs: no pairing data, a TLV Error, a
\* missing Salt or PublicKey (M2), Proof (M4), EncryptedData (M6), or
\* encrypted data that opens to a TLV without Identifier or PublicKey
Lacking(pc, val) ==
    LET tlv == ReplyTlv(val)
        has(tag) == TlvHas(tlv, tag)
        opens == has(EncryptedData)
                 /\ decrypt(NewCipher(srp.sessionKey, srp.sessionKey, 8),
                            TlvGet(tlv, EncryptedData), NonceString(PSMsg06), <<>>).ok
    IN  \/ Get(val, Key_pd).t # "Buffer"
        \/ has(Error)
        \/ pc = "m2" /\ (~has(Salt) \/ ~has(PublicKey))
        \/ pc = "m4" /\ ~has(Proof)
        \/ pc = "m6" /\ ~has(EncryptedData)
        \/ pc = "m6" /\ opens /\ (\/ ~TlvHas(OpenedWith(PSMsg06, tlv), Identifier)
                                  \/ ~TlvHas(OpenedWith(PSMsg06, tlv), PublicKey))

\* C14 (steps): a reply with a TLV Error or without the fields of its step
\* makes the procedure fail with an AuthenticationError; nothing is written
\* and there are no credentials; once it has failed nothing more is written
C14_Step ==
    /\ \A pc \in {"m2", "m4", "m6"} :
          Replied(pc) /\ Lacking(pc, calls'[pairSetup.call].val)
          => /\ pairSetup'.pc = "failed"
             /\ pairSetup'.err.name = "AuthenticationError"
             /\ written' = written
             /\ pairSetup'.credentials = NoCredentials
    /\ pairSetup.pc = "failed"
       => /\ pairSetup'.pc = "failed"
          /\ written' = written
          /\ pairSetup'.credentials = NoCredentials

\* C14 (states): credentials exist only when M1, M3 and M5 were written in
\* that order, each after the reply before it, and M6 opened to an Identifier
\* and a PublicKey
C14_Credentials ==
    /\ pairSetup.credentials # NoCredentials
       => /\ pairSetup.pc = "done"
          /\ pairSetup.trace = <<"startPairing", "M1", "M2", "finishPairing",
                                 "M3", "M4", "M5", "M6">>
          /\ SetupSent(written) = <<1, 3, 5>>
          /\ calls[pairSetup.call].state = "resolved"
          /\ TlvHas(OpenedWith(PSMsg06, ReplyTlv(calls[pairSetup.call].val)), Identifier)
          /\ TlvHas(OpenedWith(PSMsg06, ReplyTlv(calls[pairSetup.call].val)), PublicKey)
    /\ pairSetup.pc = "done" => pairSetup.credentials # NoCredentials

\* C14: in Pair-Setup a reply that carries a TLV Error or lacks the fields of
\* its step fails the procedure with an AuthenticationError, with no further
\* message and no credentials; credentials are returned only after M1, M3,
\* M5 in order and an M6 that decrypts to an Identifier and a PublicKey
C14_RefusalFails == []C14_Credentials /\ [][C14_Step]_vars

\* a refusal that also carries the Proof has failed finishPairing
C14_Witness ==
    /\ last.op = "setupM4" /\ last.variant = "errorAndFields"
    /\ pairSetup.pc = "failed" /\ pairSetup.err.name = "AuthenticationError"
    /\ SetupSent(written) = <<1, 3>>

\* the TLV the client sealed into the M5 it wrote
RECURSIVE SentM5(_)
SentM5(log) ==
    IF log = <<>> THEN <<>>
    ELSE IF log[1].type = PS_Next
            /\ TlvGet(pairingDataOf(log[1].plain), SeqNo) = <<5>>
    THEN OpenedWith(PSMsg05, pairingDataOf(log[1].plain))
    ELSE SentM5(Tail(log))

\* C16: the credentials finishPairing returned hold the private key of the
\* PublicKey sent in M5, the Identifier sent in M5, and the PublicKey and
\* Identifier decrypted from M6
C16_Credentials ==
    pairSetup.credentials # NoCredentials
    => /\ ed25519GetPublicKey(pairSetup.credentials.ltsk)
          = TlvGet(SentM5(written), PublicKey)
       /\ pairSetup.credentials.clientId = TlvGet(SentM5(written), Identifier)
       /\ pairSetup.credentials.ltpk
          = TlvGet(OpenedWith(PSMsg06, ReplyTlv(calls[pairSetup.call].val)), PublicKey)
       /\ pairSetup.credentials.atvId
          = TlvGet(OpenedWith(PSMsg06, ReplyTlv(calls[pairSetup.call].val)), Identifier)

\* finishPairing has returned credentials
C16_Witness ==
    /\ pairSetup.pc = "done"
    /\ pairSetup.credentials # NoCredentials
    /\ last.op = "setupM6"

----------------------------------------------------------------------------
(* stop() *)

\* call c is in the pending table
InTable(c) == \E i \in 1..Len(queues) : queues[i].call = c

\* C21 (stop): every call of the table is rejected with 'Protocol stopped'
\* if it was pending, and its timer is no longer armed; the other calls are
\* as before; the table is empty, the socket closed, the flag cleared
C21_Stop ==
    last'.op = "stop"
    => /\ Len(calls') = Len(calls)
       /\ \A c \in 1..Len(calls) :
             IF InTable(c)
             THEN /\ calls'[c].timer # "armed"
                  /\ IF calls[c].state = "pending"
                     THEN calls'[c].state = "rejected" /\ calls'[c].err = ProtocolStopped
                     ELSE calls'[c].state = calls[c].state /\ calls'[c].err = calls[c].err
             ELSE calls'[c] = calls[c]
       /\ queues' = <<>>
       /\ socket' = 0
       /\ socket # 0 => sockState'[socket] = "destroyed"
       /\ ~isStarted'
       /\ ~crashed'

\* C21 (afterwards): a timer that was cancelled never fires, and start() on a
\* protocol that is not started does not throw
C21_After ==
    /\ \A c \in 1..Len(calls) : calls[c].timer = "cleared" => calls'[c].timer = "cleared"
    /\ last'.op = "start" /\ ~isStarted => last'.thrown = "" /\ isStarted'

\* C21 (twice): in every state a stop() does not throw, and a second stop()
\* right after it changes nothing
C21_Twice ==
    LET same(once) == once.thrown = "" /\ stop(once) = once
    IN  same(stop(Client))

\* C21: stop() rejects every entry of the pending table with 'Protocol
\* stopped', cancels their timers for good, empties the table, closes the
\* connection and clears the started flag so that start() works again; with
\* an empty table, or called twice, it fails no caller
C21_StopRejectsAll == []C21_Twice /\ [][C21_Stop /\ C21_After]_vars

\* stop() has rejected two pending requests, on a protocol started for the
\* second time
C21_Witness ==
    /\ last.op = "stop"
    /\ Len(sockState) = 2
    /\ \E c, d \in 1..Len(calls) :
          /\ c # d
          /\ calls[c].state = "rejected" /\ calls[c].err = ProtocolStopped
          /\ calls[c].timer = "cleared"
          /\ calls[d].state = "rejected" /\ calls[d].err = ProtocolStopped
          /\ calls[d].timer = "cleared"

----------------------------------------------------------------------------
(* The OPACK codec *)

\* a value as unpack returns it when it is equal up to integer width: an
\* integer of 40 or more comes back as a SizedInt of the width packInteger
\* chose; a SizedInt keeps its width
RECURSIVE Widened(_)
Widened(v) ==
    CASE v.t = "number" ->
            IF v.n < 40 THEN v
            ELSE SizedInt(v.n, IF v.n <= 255 THEN 1 ELSE IF v.n <= 65535 THEN 2 ELSE 4)
      [] v.t = "array" -> Arr([i \in 1..Len(v.a) |-> Widened(v.a[i])])
      [] v.t = "object" ->
            Obj([i \in 1..Len(v.e) |-> [k |-> v.e[i].k, v |-> Widened(v.e[i].v)]])
      [] OTHER -> v

\* unpack has run on what pack returned
RoundTrip == last.op = "unpack" /\ last.from.op = "pack"

\* C22: unpack(pack(V)) is V up to integer width, with nothing remaining
C22_RoundTrip ==
    RoundTrip
    => /\ last.out.ok
       /\ last.out.value = Widened(last.from.value)
       /\ last.out.remaining = <<>>

\* an encoding that is a back-reference, and its index
IsReference(bytes) == bytes[1] \in 160..196
ReferenceIndex(bytes) ==
    IF bytes[1] <= 192 THEN bytes[1] - 160 ELSE readLE(bytes, 1, bytes[1] - 192)

\* the indices of the back-references pack emits for data, started with
\* objectList
RECURSIVE ReferencesIn(_, _)
RECURSIVE ReferencesInItems(_, _, _)
ReferencesInItems(items, i, objectList) ==
    IF i > Len(items) THEN {}
    ELSE ReferencesIn(items[i], objectList)
         \cup ReferencesInItems(items, i + 1, packInternal(items[i], objectList).list)

ReferencesIn(data, objectList) ==
    LET own(bytes) == IF IsReference(bytes) THEN {ReferenceIndex(bytes)} ELSE {}
        parts == IF data.t = "array" THEN data.a
                 ELSE IF data.t = "object"
                 THEN [i \in 1..(2 * Len(data.e)) |->
                          IF i % 2 = 1 THEN Str(data.e[(i + 1) \div 2].k)
                          ELSE data.e[i \div 2].v]
                 ELSE <<>>
    IN  own(packInternal(data, objectList).bytes)
        \cup ReferencesInItems(parts, 1, objectList)

RECURSIVE HasUndefined(_)
HasUndefined(v) ==
    CASE v.t = "undefined" -> TRUE
      [] v.t = "array" -> \E i \in 1..Len(v.a) : HasUndefined(v.a[i])
      [] v.t = "object" -> \E i \in 1..Len(v.e) : HasUndefined(v.e[i].v)
      [] OTHER -> FALSE

\* C23: no back-reference of pack(V) reads an index the decoder's table does
\* not have (the decoder would return undefined for it), and at the index of
\* every back-reference the decoder's table holds the value whose encoding
\* the encoder's table holds there
C23_ReferencesResolve ==
    RoundTrip
    => /\ last.out.ok
       /\ ~HasUndefined(last.out.value)
       /\ \A i \in ReferencesIn(last.from.value, <<>>) :
             /\ i < Len(last.out.list)
             /\ packInternal(last.out.list[i + 1], <<>>).bytes = last.from.list[i + 1]

\* C24: the encoder's table holds no encoding of an array or a map and none
\* of one byte, and after a value the decoder's table has as many entries
C24_TableOfLeaves ==
    /\ last.op = "pack"
       => \A i \in 1..Len(last.list) :
             Len(last.list[i]) > 1 /\ last.list[i][1] \notin 208..255
    /\ RoundTrip /\ last.out.ok => Len(last.out.list) = Len(last.from.list)

\* the first bytes of the OPACK tag table
TagTable ==
    {1, 2, 4, 5, 6} \cup (8..47) \cup (48..51) \cup {53, 54} \cup (64..100)
    \cup (112..148) \cup (160..196) \cup (208..239)

\* C25: unpack throws for every first byte outside the tag table
C25_UnknownTagThrows ==
    last.op = "unpack" /\ last.from.op = "bytes" /\ last.from.bytes[1] \notin TagTable
    => ~last.out.ok

----------------------------------------------------------------------------
(* The TLV8 codec *)

\* readTlv has run on what writeTlv returned
TlvRoundTrip == last.op = "readTlv" /\ last.from.op = "writeTlv"

\* C26: readTlv(writeTlv(M)) has the entries of M: the same tags in the same
\* order, each with the same bytes
C26_TlvRoundTrip == TlvRoundTrip => last.out = last.from.map

\* a map with a value of more than 255 bytes that is a multiple of 255, an
\* empty value after it, read back
C26_Witness ==
    /\ TlvRoundTrip
    /\ Len(last.from.map) = 2
    /\ Len(last.from.map[1].value) = 510
    /\ last.from.map[2].value = <<>>
    /\ last.out = last.from.map

\* the bytes from position pos on end inside a triple: less than two bytes
\* are left for tag and length, or less than length bytes for the value
RECURSIVE TruncatedFrom(_, _)
TruncatedFrom(data, pos) ==
    IF pos >= Len(data) THEN FALSE
    ELSE IF Len(data) - pos < 2 THEN TRUE
    ELSE IF Len(data) - pos - 2 < data[pos + 2] THEN TRUE
    ELSE TruncatedFrom(data, pos + 2 + data[pos + 2])

\* C27: readTlv of bytes that end inside a triple throws
C27_TruncatedThrows ==
    last.op = "readTlv" /\ TruncatedFrom(last.from.bytes, 0) => last.thrown # ""

\* the triples of well-formed TLV8 bytes from position pos on
RECURSIVE TriplesFrom(_, _)
TriplesFrom(data, pos) ==
    IF pos >= Len(data) THEN <<>>
    ELSE <<[tag |-> data[pos + 1],
            value |-> SubSeq(data, pos + 3, pos + 2 + data[pos + 2])]>>
         \o TriplesFrom(data, pos + 2 + data[pos + 2])

\* the number of triples written before those of entry i, when entry j takes
\* count(j) triples
RECURSIVE TriplesBefore(_, _)
TriplesBefore(count, i) ==
    IF i = 1 THEN 0 ELSE TriplesBefore(count, i - 1) + count[i - 1]

\* the triples are those of the entries in order, entry i taking count[i]
\* of them with its tag, all of 255 bytes but the last, which has the rest
ChunkedAs(triples, map, count) ==
    /\ Len(triples) = TriplesBefore(count, Len(map) + 1)
    /\ \A i \in 1..Len(map) :
          \A k \in 1..count[i] :
             LET triple == triples[TriplesBefore(count, i) + k]
             IN  /\ triple.tag = map[i].tag
                 /\ triple.value =
                       SubSeq(map[i].value, 255 * (k - 1) + 1,
                              IF k < count[i] THEN 255 * k ELSE Len(map[i].value))

\* C28, as stated: each value is written as its full 255-byte triples
\* followed by one trailing triple with the remainder, which may be empty
C28_TrailingTriple ==
    last.op = "writeTlv"
    => ChunkedAs(TriplesFrom(last.bytes, 0), last.map,
                 [i \in 1..Len(last.map) |-> Len(last.map[i].value) \div 255 + 1])

\* C28, amended: each value is written as its full 255-byte triples followed
\* by a trailing triple only when a remainder is left or the value is empty;
\* no triple has more than 255 bytes and only an empty value has an empty one
C28_Chunks ==
    last.op = "writeTlv"
    => /\ ChunkedAs(TriplesFrom(last.bytes, 0), last.map,
                    [i \in 1..Len(last.map) |->
                        IF Len(last.map[i].value) = 0 THEN 1
                        ELSE (Len(last.map[i].value) + 254) \div 255])
       /\ \A t \in 1..Len(TriplesFrom(last.bytes, 0)) :
             Len(TriplesFrom(last.bytes, 0)[t].value) <= 255

\* a value of two full triples and no trailing one, an empty value and a
\* value with a remainder of one byte have been written
C28_Witness ==
    /\ last.op = "writeTlv"
    /\ \E i \in 1..Len(last.map) : Len(last.map[i].value) = 510
    /\ \E i \in 1..Len(last.map) : Len(last.map[i].value) = 0
    /\ Len(TriplesFrom(last.bytes, 0)) = 3

----------------------------------------------------------------------------
(* Pair-Setup: the device asks the client to back off *)

\* the text seq occurs in the text of the error: its message is all a
\* caller is given (an AuthenticationError has a name and a message)
Mentions(err, seq) ==
    /\ "hex" \in DOMAIN err
    /\ \E i \in 0..(Len(err.hex) - Len(seq)) : SubSeq(err.hex, i + 1, i + Len(seq)) = seq

\* the seconds of a BackOff value, in decimal digits
RECURSIVE Decimal(_)
Decimal(n) == IF n < 10 THEN <<48 + n>> ELSE Decimal(n \div 10) \o <<48 + (n % 10)>>

\* C29: when the reply the procedure waits for has Error = BackOff, the
\* error startPairing or finishPairing fails with tells the delay of the
\* BackOff entry (its bytes as the message prints bytes, or its seconds)
C29_Step ==
    \A pc \in {"m2", "m4", "m6"} :
       Replied(pc) /\ TlvHas(ReplyTlv(calls'[pairSetup.call].val), BackOff)
       /\ TlvGet(ReplyTlv(calls'[pairSetup.call].val), Error) = <<ErrorCodeBackOff>>
       => /\ pairSetup'.pc = "failed"
          /\ LET delay == TlvGet(ReplyTlv(calls'[pairSetup.call].val), BackOff)
             IN  \/ Mentions(pairSetup'.err, Hex(delay))
                 \/ Mentions(pairSetup'.err, Decimal(readLE(delay, 0, 2)))

\* C29: every step in which the device asks to back off fails the call with
\* an error that tells the delay
C29_BackOffDelay == [][C29_Step]_vars

----------------------------------------------------------------------------
(* The nonce counters at the end of their range *)

\* C30: no frame is sealed or opened under a nonce the cipher has used in
\* that direction before: the call that would do so throws
C30_NoNonceReuse ==
    last.op \in {"encryptNext", "decryptNext"} /\ last.ok => last.fresh

----------------------------------------------------------------------------
(* The scanner's pairing flags *)

\* the bits the scanner's tests use
TestPinSupported == 16384
TestPairingDisabled == 4

\* C31: supportsPairing is true exactly when bit 0x4000 of the flags is set
\* and bit 0x04 is clear; isPairingDisabled exactly when bit 0x04 is set
C31_PairingFlags ==
    /\ last.op = "supportsPairing"
       => (last.out <=> /\ BitAnd(last.device.flags, TestPinSupported) # 0
                        /\ BitAnd(last.device.flags, TestPairingDisabled) = 0)
    /\ last.op = "isPairingDisabled"
       => (last.out <=> BitAnd(last.device.flags, TestPairingDisabled) # 0)

----------------------------------------------------------------------------
(* Auth exchanges and OPACK exchanges in one table *)

\* this step is the arrival of a frame that settles call c
SettledByFrame(c) ==
    /\ last'.op = "frame"
    /\ c <= Len(calls) /\ calls[c].state = "pending" /\ calls'[c].state # "pending"

\* C32: an auth frame settles only a pending exchangeAuth, and an OPACK frame
\* only a pending exchangeOpack, whatever the transaction ids are
C32_Step ==
    \A c \in 1..Len(calls) :
       SettledByFrame(c)
       => /\ last'.ft \in AUTH_FRAMES => calls[c].kind = "auth"
          /\ last'.ft \in OPACK_FRAMES => calls[c].kind = "opack"

\* C32: in every step a frame settles only exchanges of its own kind
C32_KindsApart == [][C32_Step]_vars

----------------------------------------------------------------------------
(* The pending entries of requests that share a key *)

\* the table has the entry of call c
HasEntry(table, c) ==
    \E q \in 1..Len(table) : table[q].call = c

\* every suspended caller has its entry in the table
C33_Registered ==
    \A c \in 1..Len(calls) : calls[c].state = "pending" => HasEntry(queues, c)

\* the timer of a request removes no entry of another request
C33_TimerStep ==
    last'.op = "timer"
    => \A d \in 1..Len(calls) :
          d # last'.call /\ HasEntry(queues, d) => HasEntry(queues', d)

\* C33: a timer that fires removes only the entry of its own request, and no
\* suspended request is ever without its entry
C33_OwnEntry == []C33_Registered /\ [][C33_TimerStep]_vars

----------------------------------------------------------------------------
(* An exchange whose frame cannot be written *)

\* this step is an exchange whose send threw: the call it made is rejected
\* at once
SendFailed ==
    /\ last'.op \in {"exchangeOpack", "exchangeAuth"}
    /\ Len(calls') = Len(calls) + 1
    /\ calls'[Len(calls')].state = "rejected"

\* C34: an exchange whose send throws fails with that error and leaves no
\* entry in the table and no armed timer
C34_Step ==
    SendFailed
    => /\ calls'[Len(calls')].err = Err("Error", "Not connected")
       /\ ~HasEntry(queues', Len(calls'))
       /\ calls'[Len(calls')].timer # "armed"

\* C34: every step in which a send throws leaves nothing of the exchange
C34_NothingLeft == [][C34_Step]_vars

----------------------------------------------------------------------------
(* start() after a start() that failed *)

\* the protocol is marked as started only while start() is in progress or
\* has succeeded
C36_Started == isStarted => task.pc # "failed"

\* start() after a start() that failed is not rejected as already started
C36_Step ==
    task.pc = "failed" /\ last'.op = "start" => last'.thrown # "Already started"

\* C36: isStarted is not left set by a start() that failed, and the start()
\* after it is attempted
C36_StartAgain == []C36_Started /\ [][C36_Step]_vars

----------------------------------------------------------------------------
(* CompanionAPI.connect() after a connect() that failed *)

\* a connect() that failed leaves the API without a protocol
C35_Disconnected == api.pc = "failed" => ~api.protocol

\* connect() returns at once only when the connect() before it succeeded, and
\* a command after a connect() that failed is refused
C35_Step ==
    /\ last'.op = "connect" /\ last'.returned => last'.was = "connected"
    /\ last'.op = "sendCommand" /\ last'.was = "failed" => last'.thrown = "Not connected"

\* C35: connect() returns without doing anything only when a session is
\* established; a connect() that failed leaves the API disconnected, the next
\* connect() runs the sequence again, and a command in between fails with
\* 'Not connected'
C35_ConnectAgain == []C35_Disconnected /\ [][C35_Step]_vars

----------------------------------------------------------------------------
(* CompanionAPI.disconnect() and the subscribed events *)

\* no event is in the list twice
C37_NoDuplicates ==
    \A i, j \in 1..Len(api.subscribedEvents) :
        api.subscribedEvents[i] = api.subscribedEvents[j] => i = j

\* disconnect() has deregistered every event it found subscribed
C37_Deregistered == \A i \in 1..Len(api.left) : includes(api.dereg, api.left[i])

\* C37: after disconnect() every event that was subscribed has been
\* deregistered and the list is empty, so that the next connect() registers
\* _iMC again; and the list never holds an event twice
C37_Unsubscribed ==
    /\ C37_NoDuplicates
    /\ api.pc = "disconnected" => api.subscribedEvents = <<>> /\ C37_Deregistered

----------------------------------------------------------------------------
(* The SRP handler called step by step *)

\* C38: verify2 (and encryptionKeys, which calls it) returns the keys of the
\* data channel only when verify1 has accepted the device's identifier and
\* signature since initialize() was called; otherwise, as after a verify1
\* that threw, it throws 'Shared secret not established'
C38_KeysAfterVerify1 ==
    last.op = "verify2" =>
        IF last.verified THEN last.thrown = ""
        ELSE last.thrown = "Shared secret not established"


\* finishPairing() was called though no startPairing() had succeeded
C39_NotStarted == last'.op = "finishPairing" /\ pairSetup.pc # "started"

\* each step of the handler refuses to run before its predecessor has, with
\* the handler left as it was; and so does finishPairing, with nothing sent
C39_Step ==
    /\ last'.op \in {"step1", "verify1"} /\ last'.early =>
           last'.thrown = "Keys not initialized"
    /\ last'.op = "step2" /\ last'.early => last'.thrown = "SRP not initialized"
    /\ last'.op = "step3" /\ last'.early => last'.thrown = "SRP session not established"
    /\ last'.op = "step4" /\ last'.early => last'.thrown = "Session key not established"
    /\ last'.op = "verify2" /\ last'.early =>
           last'.thrown = "Shared secret not established"
    /\ last'.op \in {"step1", "verify1", "step2", "step3", "step4", "verify2"}
       /\ last'.early => srp' = srp
    /\ C39_NotStarted =>
           /\ pairSetup'.pc = "failed"
           /\ pairSetup'.err = AuthenticationError("Pairing not started")
           /\ written' = written /\ calls' = calls /\ srp' = srp

\* C39: no step of the SRP handler runs before its predecessor (step1 and
\* verify1 after initialize, step2 after step1, step3 after step2, step4 after
\* step3, verify2 after verify1): called too early it throws and leaves the
\* handler unchanged; finishPairing before a successful startPairing fails
\* with 'Pairing not started' and sends nothing
C39_StepsInOrder == [][C39_Step]_vars

\* step3 was called after step1 and before step2, and refused
C39_Witness ==
    /\ last.op = "step3" /\ last.early /\ "step1" \in srp.ran
    /\ last.thrown = "SRP session not established"

----------------------------------------------------------------------------
(* The SeqNo of the device's replies *)

\* C40: a reply counts as M2 or M4 of Pair-Verify, or as M2, M4 or M6 of
\* Pair-Setup, only if its SeqNo says so: when the device's reply carries
\* another SeqNo the procedure fails
C40_ExpectedSeqNo ==
    /\ last.op = "m2" /\ last.variant = "seqNo" => task.pc = "failed"
    /\ last.op \in {"setupM2", "setupM4", "setupM6"} /\ last.variant = "seqNo" =>
           pairSetup.pc = "failed"

====
